---- MODULE Spec2Model ----
(***************************************************************************)
(* Model of the grant reconciliation of terraform-provider-mysql: the      *)
(* single-grant resource (mysql_grant, resource_grant.go) and the          *)
(* multi-grant resource (mysql_grants, resource_grants.go) with the        *)
(* helpers they share (utils.go).                                          *)
(*                                                                         *)
(* Text is modelled as a sequence of atoms.  An atom is a string; the      *)
(* atoms are cut where the code looks at the text: a backtick, a single    *)
(* quote, the "PROCEDURE " prefix and the wildcard are atoms of their own. *)
(* A statement is the record of the clauses that fmt.Sprintf joins.        *)
(***************************************************************************)
EXTENDS Integers, Sequences, FiniteSets, TLC

VARIABLES
    version,    \* the server's version, as <<major, minor, patch>>
    server,     \* what the principal holds on the server
    d,          \* the schema.ResourceData of the resource
    log,        \* the statements handed to db.Exec by the latest call, in order
    ret,        \* the error value the latest call returned
    call,       \* the latest call: its name, its arguments, the server at entry
    drifts      \* the number of out-of-band changes of the server so far

vars == <<version, server, d, log, ret, call, drifts>>

----------------------------------------------------------------------------
(* Bounds *)

MaxSpecs == 2       \* grants blocks in one collection
MaxDrift == 1       \* out-of-band changes of the server in one behaviour
MaxPrivs == 2       \* privileges in one privilege clause
MaxNameLen == 3     \* atoms in one identifier

----------------------------------------------------------------------------
(* Text helpers *)

BT == "BACKTICK"     \* the identifier quote character (0x60)
SQ == "'"
Star == <<"*">>
ProcedurePrefix == <<"PROCEDURE ">>

\* v := ...; F(v): the value is computed once and handed to what follows
Once(v, F(_)) == CHOOSE y \in {F(x) : x \in {v}} : TRUE

HasSuffix(s, suffix) ==
    /\ Len(s) >= Len(suffix)
    /\ SubSeq(s, Len(s) - Len(suffix) + 1, Len(s)) = suffix

HasPrefix(s, prefix) ==
    /\ Len(s) >= Len(prefix)
    /\ SubSeq(s, 1, Len(prefix)) = prefix

Range(s) == {s[i] : i \in 1..Len(s)}

formatDatabaseName_AlwaysQuote(database) ==
    IF database # Star
    THEN LET quoted == <<BT>> \o database \o <<BT>>
         IN  IF HasPrefix(quoted, <<BT>> \o ProcedurePrefix)
             THEN ProcedurePrefix \o <<BT>> \o SubSeq(quoted, 3, Len(quoted))
             ELSE quoted
    ELSE database

(* utils.go formatDatabaseName *)
formatDatabaseName(database) ==
    IF database # Star /\ ~HasSuffix(database, <<BT>>)
    THEN LET quoted == <<BT>> \o database \o <<BT>>
         IN  IF HasPrefix(quoted, <<BT>> \o ProcedurePrefix)
             THEN ProcedurePrefix \o <<BT>> \o SubSeq(quoted, 3, Len(quoted))
             ELSE quoted
    ELSE database

formatTableName_KeepQuoted(table) ==
    IF table = <<>> \/ table = Star
    THEN Star
    ELSE IF HasSuffix(table, <<BT>>) THEN table
    ELSE <<BT>> \o table \o <<BT>>

(* utils.go formatTableName *)
formatTableName(table) ==
    IF table = <<>> \/ table = Star
    THEN Star
    ELSE <<BT>> \o table \o <<BT>>

----------------------------------------------------------------------------
(* Statements and error values *)

NoOn == <<>>

\* verb what [ON on] TO/FROM to [REQUIRE require] [WITH GRANT OPTION]
Stmt(verb, what, on, to) ==
    [verb |-> verb, what |-> what, on |-> on, to |-> to,
     require |-> <<>>, withGrantOption |-> FALSE]

NoStmt == Stmt("", <<>>, NoOn, <<>>)

\* an error value: its message, and for fmt.Errorf("... (%s): %s", sql, err)
\* the statement and the message of the error it wraps
Error(msg) == [msg |-> msg, sql |-> NoStmt, cause |-> ""]
Errorf(msg, sql, err) == [msg |-> msg, sql |-> sql, cause |-> err.msg]

Nil == Error("")
ErrRolesUnsupported == Error("roles are only supported on MySQL 8 and above")
ErrNoPrincipal == Error("user with host or a role is required")
ErrRolesOrPrivs == Error("one of privileges or roles is required")

----------------------------------------------------------------------------
(* Principal and capability *)

userOrRole_RoleFirst(user, host, role, hasRoles) ==
    IF Len(role) > 0
    THEN IF ~hasRoles
         THEN [str |-> <<>>, isRole |-> FALSE, err |-> ErrRolesUnsupported]
         ELSE [str |-> <<SQ>> \o role \o <<SQ>>, isRole |-> TRUE, err |-> Nil]
    ELSE IF Len(user) > 0 /\ Len(host) > 0
    THEN [str |-> <<SQ>> \o user \o <<SQ, "@", SQ>> \o host \o <<SQ>>,
          isRole |-> FALSE, err |-> Nil]
    ELSE [str |-> <<>>, isRole |-> FALSE, err |-> ErrNoPrincipal]

(* utils.go userOrRole *)
userOrRole(user, host, role, hasRoles) ==
    IF Len(user) > 0 /\ Len(host) > 0
    THEN [str |-> <<SQ>> \o user \o <<SQ, "@", SQ>> \o host \o <<SQ>>,
          isRole |-> FALSE, err |-> Nil]
    ELSE IF Len(role) > 0
    THEN IF ~hasRoles
         THEN [str |-> <<>>, isRole |-> FALSE, err |-> ErrRolesUnsupported]
         ELSE [str |-> <<SQ>> \o role \o <<SQ>>, isRole |-> TRUE, err |-> Nil]
    ELSE [str |-> <<>>, isRole |-> FALSE, err |-> ErrNoPrincipal]

RequiredVersion == <<8, 0, 0>>

(* go-version GreaterThan: segment by segment *)
GreaterThan(a, b) ==
    \/ a[1] > b[1]
    \/ a[1] = b[1] /\ a[2] > b[2]
    \/ a[1] = b[1] /\ a[2] = b[2] /\ a[3] > b[3]

(* utils.go supportsRoles *)
supportsRoles(v) == GreaterThan(v, RequiredVersion)

----------------------------------------------------------------------------
(* schema.Set: a set, listed in the order of the hash keys of its members *)

Privs == {"SELECT", "UPDATE", "DELETE"}
RoleNames == {"TFRole"}

\* The keys are the decimal crc32 of the token, sorted as strings:
\* UPDATE 1759376126, SELECT 3138006342, DELETE 3404380929,
\* TFRole 661765347, USAGE 666868928.
ListOrder == <<"UPDATE", "SELECT", "DELETE", "TFRole", "USAGE">>

InSet(x, S) == x \in S

\* schema.Set List() on a set of strings
List(S) == SelectSeq(ListOrder, LAMBDA x : InSet(x, S))

\* schema.Set Difference
Difference(A, B) == A \ B

----------------------------------------------------------------------------
(* The server that executes the statements *)

GrantOption == "GRANT OPTION"
All == "ALL"

Err1141 == Error("Error 1141: There is no such grant defined for user")
ErrDenied == Error("Error 1044: Access denied for user")

\* the identifier a quoted identifier names
Unquote(t) ==
    IF Len(t) >= 2 /\ t[1] = BT /\ t[Len(t)] = BT
    THEN SubSeq(t, 2, Len(t) - 1)
    ELSE t

EmptyServer == [privs |-> {}, roles |-> {}]

HeldOn(srv, db, tb) == {t[3] : t \in {u \in srv.privs : u[1] = db /\ u[2] = tb}}

\* USAGE names no privilege
NamedPrivs(stmt) ==
    LET named == {w[1] : w \in Range(stmt.what)}
    IN  IF All \in named THEN Privs ELSE named \ {"USAGE"}

NamedRoles(stmt) == {w[2] : w \in Range(stmt.what)}

(* What the server does with one statement for the principal.  A REVOKE on *)
(* a database or a table where the principal holds nothing fails with      *)
(* error 1141; on the global scope *.* the account itself is the grant.    *)
ServerExec(srv, stmt) ==
    IF stmt.on = NoOn
    THEN [server |-> [srv EXCEPT !.roles =
                         IF stmt.verb = "GRANT" THEN @ \cup NamedRoles(stmt)
                                                ELSE @ \ NamedRoles(stmt)],
          err |-> Nil]
    ELSE LET db == Unquote(stmt.on[1])
             tb == Unquote(stmt.on[2])
             named == {<<db, tb, p>> : p \in NamedPrivs(stmt)}
             option == IF stmt.withGrantOption THEN {<<db, tb, GrantOption>>} ELSE {}
         IN  IF stmt.verb = "GRANT"
             THEN [server |-> [srv EXCEPT !.privs = @ \cup named \cup option],
                   err |-> Nil]
             ELSE IF HeldOn(srv, db, tb) = {} /\ <<db, tb>> # <<Star, Star>>
             THEN [server |-> srv, err |-> Err1141]
             ELSE [server |-> [srv EXCEPT !.privs = @ \ named], err |-> Nil]

NoFault == [at |-> 0, err |-> Nil]

\* the connection of one call: the server behind it, the statements sent so
\* far and what each returned, the fault the environment injects, the
\* invocations of updatePrivileges
Conn(srv, fault) ==
    [server |-> srv, log |-> <<>>, results |-> <<>>, fault |-> fault, invs |-> <<>>]

(* db.Exec *)
DbExec(db, stmt) ==
    LET sent == [db EXCEPT !.log = Append(@, stmt)]
    IN  IF db.fault.at = Len(sent.log)
        THEN [db |-> [sent EXCEPT !.results = Append(@, db.fault.err)],
              err |-> db.fault.err]
        ELSE LET r == ServerExec(db.server, stmt)
             IN  [db |-> [sent EXCEPT !.server = r.server,
                                      !.results = Append(@, r.err)],
                  err |-> r.err]

Texts(list) == [i \in 1..Len(list) |-> <<list[i]>>]

\* flattenList with the template '%s' in single quotes
Quoted(list) == [i \in 1..Len(list) |-> <<SQ, list[i], SQ>>]

----------------------------------------------------------------------------
(* Single-scope reconciliation, resource_grant.go *)

Returned(db, err) == [db |-> db, err |-> err]

\* history: one record per invocation of updatePrivileges, with the part
\* of the log it produced
Invocation(newPrivs, oldPrivs, user, database, table, before, r) ==
    [newPrivs |-> newPrivs, oldPrivs |-> oldPrivs, user |-> user,
     database |-> database, table |-> table,
     first |-> Len(before.log) + 1, last |-> Len(r.db.log), err |-> r.err]

updatePrivileges_GrantAll(newPrivs, oldPrivs, db, user, database, table) ==
    LET grantIfs == List(newPrivs)
        revokeIfs == List(Difference(oldPrivs, newPrivs))
        revoked == IF Len(revokeIfs) > 0
                   THEN DbExec(db, Stmt("REVOKE", Texts(revokeIfs), <<database, table>>, user))
                   ELSE Returned(db, Nil)
        r == IF revoked.err # Nil
             THEN revoked
             ELSE IF Len(grantIfs) > 0
             THEN DbExec(revoked.db, Stmt("GRANT", Texts(grantIfs), <<database, table>>, user))
             ELSE Returned(revoked.db, Nil)
    IN  Returned([r.db EXCEPT !.invs = Append(@,
                     Invocation(newPrivs, oldPrivs, user, database, table, db, r))],
                 r.err)

updatePrivileges_GrantFirst(newPrivs, oldPrivs, db, user, database, table) ==
    LET grantIfs == List(Difference(newPrivs, oldPrivs))
        revokeIfs == List(Difference(oldPrivs, newPrivs))
        granted == IF Len(grantIfs) > 0
                   THEN DbExec(db, Stmt("GRANT", Texts(grantIfs), <<database, table>>, user))
                   ELSE Returned(db, Nil)
        r == IF granted.err # Nil
             THEN granted
             ELSE IF Len(revokeIfs) > 0
             THEN DbExec(granted.db, Stmt("REVOKE", Texts(revokeIfs), <<database, table>>, user))
             ELSE Returned(granted.db, Nil)
    IN  Returned([r.db EXCEPT !.invs = Append(@,
                     Invocation(newPrivs, oldPrivs, user, database, table, db, r))],
                 r.err)

updatePrivileges_GrantAfterFailure(newPrivs, oldPrivs, db, user, database, table) ==
    LET grantIfs == List(Difference(newPrivs, oldPrivs))
        revokeIfs == List(Difference(oldPrivs, newPrivs))
        revoked == IF Len(revokeIfs) > 0
                   THEN DbExec(db, Stmt("REVOKE", Texts(revokeIfs), <<database, table>>, user))
                   ELSE Returned(db, Nil)
        granted == IF Len(grantIfs) > 0
                   THEN DbExec(revoked.db, Stmt("GRANT", Texts(grantIfs), <<database, table>>, user))
                   ELSE Returned(revoked.db, Nil)
        r == IF revoked.err # Nil THEN Returned(granted.db, revoked.err) ELSE granted
    IN  Returned([r.db EXCEPT !.invs = Append(@,
                     Invocation(newPrivs, oldPrivs, user, database, table, db, r))],
                 r.err)

(* resource_grant.go updatePrivileges *)
updatePrivileges(newPrivs, oldPrivs, db, user, database, table) ==
    LET grantIfs == List(Difference(newPrivs, oldPrivs))
        revokeIfs == List(Difference(oldPrivs, newPrivs))
        revoked == IF Len(revokeIfs) > 0
                   THEN DbExec(db, Stmt("REVOKE", Texts(revokeIfs), <<database, table>>, user))
                   ELSE Returned(db, Nil)
        r == IF revoked.err # Nil
             THEN revoked
             ELSE IF Len(grantIfs) > 0
             THEN DbExec(revoked.db, Stmt("GRANT", Texts(grantIfs), <<database, table>>, user))
             ELSE Returned(revoked.db, Nil)
    IN  Returned([r.db EXCEPT !.invs = Append(@,
                     Invocation(newPrivs, oldPrivs, user, database, table, db, r))],
                 r.err)

grantStatement_OnForRoles(cfg, f, hasRoles) ==
    LET hasPrivs == f.privileges # {}
        rolesGranted == IF hasPrivs THEN 0 ELSE Cardinality(f.roles)
        privilegesOrRoles == IF hasPrivs THEN Texts(List(f.privileges))
                                         ELSE Quoted(List(f.roles))
        p == userOrRole(cfg.user, cfg.host, cfg.role, hasRoles)
        database == formatDatabaseName(f.database)
        table == formatTableName(f.table)
        grantOn == IF ~p.isRole \/ hasPrivs \/ rolesGranted > 0
                   THEN <<database, table>> ELSE NoOn
        stmtSQL == Stmt("GRANT", privilegesOrRoles, grantOn, p.str)
    IN  IF ~hasPrivs /\ f.roles # {} /\ ~hasRoles
        THEN [stmt |-> NoStmt, err |-> ErrRolesUnsupported]
        ELSE IF ~hasPrivs /\ f.roles = {}
        THEN [stmt |-> NoStmt, err |-> ErrRolesOrPrivs]
        ELSE IF p.err # Nil
        THEN [stmt |-> NoStmt, err |-> p.err]
        ELSE [stmt |-> [stmtSQL EXCEPT
                          !.require = IF ~hasRoles /\ cfg.tls_option # <<>>
                                      THEN cfg.tls_option ELSE <<>>,
                          !.withGrantOption = ~hasRoles /\ ~p.isRole /\ f.grant],
              err |-> Nil]

grantStatement_GrantAlways(cfg, f, hasRoles) ==
    LET hasPrivs == f.privileges # {}
        rolesGranted == IF hasPrivs THEN 0 ELSE Cardinality(f.roles)
        privilegesOrRoles == IF hasPrivs THEN Texts(List(f.privileges))
                                         ELSE Quoted(List(f.roles))
        p == userOrRole(cfg.user, cfg.host, cfg.role, hasRoles)
        database == formatDatabaseName(f.database)
        table == formatTableName(f.table)
        grantOn == IF (~p.isRole \/ hasPrivs) /\ rolesGranted = 0
                   THEN <<database, table>> ELSE NoOn
        stmtSQL == Stmt("GRANT", privilegesOrRoles, grantOn, p.str)
    IN  IF ~hasPrivs /\ f.roles # {} /\ ~hasRoles
        THEN [stmt |-> NoStmt, err |-> ErrRolesUnsupported]
        ELSE IF ~hasPrivs /\ f.roles = {}
        THEN [stmt |-> NoStmt, err |-> ErrRolesOrPrivs]
        ELSE IF p.err # Nil
        THEN [stmt |-> NoStmt, err |-> p.err]
        ELSE [stmt |-> [stmtSQL EXCEPT
                          !.require = IF ~hasRoles /\ cfg.tls_option # <<>>
                                      THEN cfg.tls_option ELSE <<>>,
                          !.withGrantOption = ~p.isRole /\ f.grant],
              err |-> Nil]

grantStatement_RequireAlways(cfg, f, hasRoles) ==
    LET hasPrivs == f.privileges # {}
        rolesGranted == IF hasPrivs THEN 0 ELSE Cardinality(f.roles)
        privilegesOrRoles == IF hasPrivs THEN Texts(List(f.privileges))
                                         ELSE Quoted(List(f.roles))
        p == userOrRole(cfg.user, cfg.host, cfg.role, hasRoles)
        database == formatDatabaseName(f.database)
        table == formatTableName(f.table)
        grantOn == IF (~p.isRole \/ hasPrivs) /\ rolesGranted = 0
                   THEN <<database, table>> ELSE NoOn
        stmtSQL == Stmt("GRANT", privilegesOrRoles, grantOn, p.str)
    IN  IF ~hasPrivs /\ f.roles # {} /\ ~hasRoles
        THEN [stmt |-> NoStmt, err |-> ErrRolesUnsupported]
        ELSE IF ~hasPrivs /\ f.roles = {}
        THEN [stmt |-> NoStmt, err |-> ErrRolesOrPrivs]
        ELSE IF p.err # Nil
        THEN [stmt |-> NoStmt, err |-> p.err]
        ELSE [stmt |-> [stmtSQL EXCEPT
                          !.require = IF cfg.tls_option # <<>>
                                      THEN cfg.tls_option ELSE <<>>,
                          !.withGrantOption = ~hasRoles /\ ~p.isRole /\ f.grant],
              err |-> Nil]

(* The GRANT statement of a creation: CreateGrant, and CreateGrants for    *)
(* one spec f.  cfg carries user, host, role and tls_option.               *)
grantStatement(cfg, f, hasRoles) ==
    LET hasPrivs == f.privileges # {}
        rolesGranted == IF hasPrivs THEN 0 ELSE Cardinality(f.roles)
        privilegesOrRoles == IF hasPrivs THEN Texts(List(f.privileges))
                                         ELSE Quoted(List(f.roles))
        p == userOrRole(cfg.user, cfg.host, cfg.role, hasRoles)
        database == formatDatabaseName(f.database)
        table == formatTableName(f.table)
        grantOn == IF (~p.isRole \/ hasPrivs) /\ rolesGranted = 0
                   THEN <<database, table>> ELSE NoOn
        stmtSQL == Stmt("GRANT", privilegesOrRoles, grantOn, p.str)
    IN  IF ~hasPrivs /\ f.roles # {} /\ ~hasRoles
        THEN [stmt |-> NoStmt, err |-> ErrRolesUnsupported]
        ELSE IF ~hasPrivs /\ f.roles = {}
        THEN [stmt |-> NoStmt, err |-> ErrRolesOrPrivs]
        ELSE IF p.err # Nil
        THEN [stmt |-> NoStmt, err |-> p.err]
        ELSE [stmt |-> [stmtSQL EXCEPT
                          !.require = IF ~hasRoles /\ cfg.tls_option # <<>>
                                      THEN cfg.tls_option ELSE <<>>,
                          !.withGrantOption = ~hasRoles /\ ~p.isRole /\ f.grant],
              err |-> Nil]

----------------------------------------------------------------------------
(* The mysql_grant resource: one scope *)

Versions == {<<5, 7, 30>>, <<8, 0, 21>>}

UserCfg == [user |-> <<"jdoe">>, host |-> <<"example.com">>, role |-> <<>>,
            tls_option |-> <<"NONE">>]
RoleCfg == [user |-> <<>>, host |-> <<"localhost">>, role |-> <<"TFRole">>,
            tls_option |-> <<"NONE">>]
PrincipalCfgs == {UserCfg, RoleCfg}

GrantDatabases == {<<"d">>, <<BT, "d", BT>>}
GrantTables == {Star, <<"t">>}

\* the resource data of a mysql_grant that was created with privileges
GrantData ==
    {[cfg |-> c, database |-> db, table |-> tb, privileges |-> ps,
      roles |-> {}, grant |-> FALSE] :
        c \in PrincipalCfgs, db \in GrantDatabases, tb \in GrantTables,
        ps \in (SUBSET Privs) \ {{}}}

\* a statement the server refuses for a reason of its own
Faults == {NoFault} \cup [at : 1..2, err : {ErrDenied}]

NoCall == [op |-> "", old |-> {}, new |-> {}, before |-> EmptyServer,
           invs |-> <<>>, results |-> <<>>]

InitGrant ==
    /\ version \in Versions
    /\ d \in GrantData
    /\ LET created == grantStatement(d.cfg, d, supportsRoles(version))
       IN  /\ created.err = Nil
           /\ server = ServerExec(EmptyServer, created.stmt).server
    /\ log = <<>>
    /\ ret = Nil
    /\ call = NoCall
    /\ drifts = 0

(* resource_grant.go UpdateGrant *)
UpdateGrant ==
    /\ ret = Nil
    /\ \E newPrivs \in SUBSET Privs, fault \in Faults :
           LET hasRoles == supportsRoles(version)
               p == userOrRole(d.cfg.user, d.cfg.host, d.cfg.role, hasRoles)
               database == formatDatabaseName(d.database)
               table == d.table
               db == Conn(server, fault)
               oldPrivs == d.privileges
               r == IF p.err # Nil
                    THEN Returned(db, p.err)
                    ELSE IF newPrivs # oldPrivs
                    THEN updatePrivileges(oldPrivs, newPrivs, db, p.str, database, table)
                    ELSE Returned(db, Nil)
           IN  \E done \in {r} :
               /\ server' = done.db.server
               /\ log' = done.db.log
               /\ ret' = done.err
               /\ call' = [op |-> "UpdateGrant", old |-> oldPrivs, new |-> newPrivs,
                           before |-> server, invs |-> done.db.invs,
                           results |-> done.db.results]
               /\ d' = IF done.err = Nil THEN [d EXCEPT !.privileges = newPrivs] ELSE d
               /\ UNCHANGED <<version, drifts>>

NextGrant == UpdateGrant

SpecGrant == InitGrant /\ [][NextGrant]_vars

----------------------------------------------------------------------------
(* The mysql_grants resource: a collection of specs, resource_grants.go *)

\* one element of the "grants" set: SubGrantRead
SubGrant(database, table, privileges, roles, grant) ==
    [database |-> database, table |-> table, privileges |-> privileges,
     roles |-> roles, grant |-> grant]

Quote(name) == <<BT>> \o name \o <<BT>>

\* The specs the configurations are made of: scope d.* with two privilege
\* sets that overlap, with the grant flag, with a role and with nothing; the
\* same database already quoted; a table, bare and already quoted.
SpecUniverse ==
    {SubGrant(<<"d">>, Star, {"SELECT", "UPDATE"}, {}, FALSE),
     SubGrant(<<"d">>, Star, {"UPDATE", "DELETE"}, {}, FALSE),
     SubGrant(<<"d">>, Star, {"SELECT", "UPDATE"}, {}, TRUE),
     SubGrant(Quote(<<"d">>), Star, {"SELECT", "UPDATE"}, {}, FALSE),
     SubGrant(<<"d">>, <<"t">>, {"SELECT", "UPDATE"}, {}, FALSE),
     SubGrant(<<"d">>, Quote(<<"t">>), {"SELECT", "UPDATE"}, {}, FALSE),
     SubGrant(<<"d">>, Star, {}, {"TFRole"}, FALSE),
     SubGrant(<<"d">>, Star, {}, {}, FALSE)}

Collections == {c \in SUBSET SpecUniverse : Cardinality(c) <= MaxSpecs}

\* The key of a set element is the hash of its content; List() returns the
\* elements in the order of their keys, which is unrelated to the content.
NameCode(t) == IF t = <<>> THEN 0 ELSE IF t = Star THEN 1 ELSE Len(t)
SetCode(S) ==
    (IF "SELECT" \in S THEN 1 ELSE 0) + (IF "UPDATE" \in S THEN 2 ELSE 0)
    + (IF "DELETE" \in S THEN 4 ELSE 0) + (IF "TFRole" \in S THEN 8 ELSE 0)
SpecCode(f) ==
    (((NameCode(f.database) * 4 + NameCode(f.table)) * 8 + SetCode(f.privileges)) * 2
     + (IF f.roles = {} THEN 0 ELSE 1)) * 2 + (IF f.grant THEN 1 ELSE 0)
HashResource(f) == (SpecCode(f) * 151) % 389

RECURSIVE ListSpecs(_)
ListSpecs(S) ==
    IF S = {} THEN <<>>
    ELSE Once(CHOOSE x \in S : \A y \in S : HashResource(x) <= HashResource(y),
              LAMBDA first : <<first>> \o ListSpecs(S \ {first}))

(* resource_grants.go expandGrants *)
expandGrants(p) == ListSpecs(p)

\* the test of the two nested loops of updatePrivilegesMulti
SameScope(newPrivObj, oldPrivObj) ==
    /\ formatTableName(newPrivObj.table) = formatTableName(oldPrivObj.table)
    /\ formatDatabaseName(oldPrivObj.database) = formatDatabaseName(newPrivObj.database)

\* the index of the first element of list on the scope of obj, 0 if none
FirstMatch(list, obj) ==
    LET hits == {j \in 1..Len(list) : SameScope(list[j], obj)}
    IN  IF hits = {} THEN 0 ELSE CHOOSE j \in hits : \A k \in hits : j <= k

RECURSIVE oldPrivsLoop_Swapped(_, _, _, _, _)
oldPrivsLoop_Swapped(i, oldPrivsList, newPrivsList, db, user) ==
    IF i > Len(oldPrivsList) THEN Returned(db, Nil)
    ELSE LET oldPrivObj == oldPrivsList[i]
             found == FirstMatch(newPrivsList, oldPrivObj)
             r == IF found > 0
                  THEN updatePrivileges(
                      oldPrivObj.privileges, newPrivsList[found].privileges,
                      db, user,
                      formatDatabaseName(oldPrivObj.database),
                      formatTableName(oldPrivObj.table))
                  ELSE updatePrivileges(
                      {}, oldPrivObj.privileges, db, user,
                      formatDatabaseName(oldPrivObj.database),
                      formatTableName(oldPrivObj.table))
         IN  Once(r, LAMBDA done :
                 IF done.err # Nil THEN done
                 ELSE oldPrivsLoop_Swapped(i + 1, oldPrivsList, newPrivsList, done.db, user))

RECURSIVE oldPrivsLoop_SkipUnmatched(_, _, _, _, _)
oldPrivsLoop_SkipUnmatched(i, oldPrivsList, newPrivsList, db, user) ==
    IF i > Len(oldPrivsList) THEN Returned(db, Nil)
    ELSE LET oldPrivObj == oldPrivsList[i]
             found == FirstMatch(newPrivsList, oldPrivObj)
             r == IF found > 0
                  THEN updatePrivileges(
                      newPrivsList[found].privileges, oldPrivObj.privileges,
                      db, user,
                      formatDatabaseName(oldPrivObj.database),
                      formatTableName(oldPrivObj.table))
                  ELSE Returned(db, Nil)
         IN  Once(r, LAMBDA done :
                 IF done.err # Nil THEN done
                 ELSE oldPrivsLoop_SkipUnmatched(i + 1, oldPrivsList, newPrivsList, done.db, user))

(* updatePrivilegesMulti, the loop over oldPrivsList *)
RECURSIVE oldPrivsLoop(_, _, _, _, _)
oldPrivsLoop(i, oldPrivsList, newPrivsList, db, user) ==
    IF i > Len(oldPrivsList) THEN Returned(db, Nil)
    ELSE LET oldPrivObj == oldPrivsList[i]
             found == FirstMatch(newPrivsList, oldPrivObj)
             r == updatePrivileges(
                      IF found > 0 THEN newPrivsList[found].privileges ELSE {},
                      oldPrivObj.privileges, db, user,
                      formatDatabaseName(oldPrivObj.database),
                      formatTableName(oldPrivObj.table))
         IN  Once(r, LAMBDA done :
                 IF done.err # Nil THEN done
                 ELSE oldPrivsLoop(i + 1, oldPrivsList, newPrivsList, done.db, user))

(* updatePrivilegesMulti, the loop over newPrivsList *)
RECURSIVE newPrivsLoop(_, _, _, _, _)
newPrivsLoop(i, oldPrivsList, newPrivsList, db, user) ==
    IF i > Len(newPrivsList) THEN Returned(db, Nil)
    ELSE LET newPrivObj == newPrivsList[i]
             found == \E j \in 1..Len(oldPrivsList) : SameScope(newPrivObj, oldPrivsList[j])
             r == IF ~found
                  THEN updatePrivileges(newPrivObj.privileges, {}, db, user,
                           formatDatabaseName(newPrivObj.database),
                           formatTableName(newPrivObj.table))
                  ELSE Returned(db, Nil)
         IN  Once(r, LAMBDA done :
                 IF done.err # Nil THEN done
                 ELSE newPrivsLoop(i + 1, oldPrivsList, newPrivsList, done.db, user))

updatePrivilegesMulti_OldOnly(oldPrivsSet, newPrivsSet, db, user) ==
    LET newPrivsList == ListSpecs(Difference(newPrivsSet, oldPrivsSet))
        oldPrivsList == ListSpecs(Difference(oldPrivsSet, newPrivsSet))
    IN  oldPrivsLoop(1, oldPrivsList, newPrivsList, db, user)

updatePrivilegesMulti_AllNew(oldPrivsSet, newPrivsSet, db, user) ==
    LET newPrivsList == ListSpecs(newPrivsSet)
        oldPrivsList == ListSpecs(Difference(oldPrivsSet, newPrivsSet))
        r == oldPrivsLoop(1, oldPrivsList, newPrivsList, db, user)
    IN  Once(r, LAMBDA done :
            IF done.err # Nil THEN done
            ELSE newPrivsLoop(1, oldPrivsList, newPrivsList, done.db, user))

(* resource_grants.go updatePrivilegesMulti *)
updatePrivilegesMulti(oldPrivsSet, newPrivsSet, db, user) ==
    LET newPrivsList == ListSpecs(Difference(newPrivsSet, oldPrivsSet))
        oldPrivsList == ListSpecs(Difference(oldPrivsSet, newPrivsSet))
        r == oldPrivsLoop(1, oldPrivsList, newPrivsList, db, user)
    IN  Once(r, LAMBDA done :
            IF done.err # Nil THEN done
            ELSE newPrivsLoop(1, oldPrivsList, newPrivsList, done.db, user))

RECURSIVE createLoop_SkipFailed(_, _, _, _, _)
createLoop_SkipFailed(i, fs, cfg, hasRoles, db) ==
    IF i > Len(fs) THEN Returned(db, Nil)
    ELSE LET g == grantStatement(cfg, fs[i], hasRoles)
         IN  IF g.err # Nil THEN Returned(db, g.err)
             ELSE Once(DbExec(db, g.stmt), LAMBDA r :
                      IF r.err # Nil
                      THEN createLoop_SkipFailed(i + 1, fs, cfg, hasRoles, r.db)
                      ELSE createLoop_SkipFailed(i + 1, fs, cfg, hasRoles, r.db))

(* CreateGrants, the loop over the declared specs *)
RECURSIVE createLoop(_, _, _, _, _)
createLoop(i, fs, cfg, hasRoles, db) ==
    IF i > Len(fs) THEN Returned(db, Nil)
    ELSE LET g == grantStatement(cfg, fs[i], hasRoles)
         IN  IF g.err # Nil THEN Returned(db, g.err)
             ELSE Once(DbExec(db, g.stmt), LAMBDA r :
                      IF r.err # Nil
                      THEN Returned(r.db, Errorf("error running SQL", g.stmt, r.err))
                      ELSE createLoop(i + 1, fs, cfg, hasRoles, r.db))

\* regexp "Error 1141:" on the text of the error
Matches1141(err) == err.msg = Err1141.msg

deleteOne_Continue1141(f, db, userOrRoleStr, isRole) ==
    LET database == formatDatabaseName(f.database)
        table == formatTableName(f.table)
        optionSQL == Stmt("REVOKE", <<<<GrantOption>>>>, <<database, table>>, userOrRoleStr)
        option == IF ~isRole /\ Len(List(f.roles)) = 0
                  THEN DbExec(db, optionSQL)
                  ELSE Returned(db, Nil)
        sql == IF Len(List(f.roles)) > 0
               THEN Stmt("REVOKE", Quoted(List(f.roles)), NoOn, userOrRoleStr)
               ELSE IF Len(List(f.privileges)) > 0
               THEN Stmt("REVOKE", Texts(List(f.privileges)), <<database, table>>, userOrRoleStr)
               ELSE Stmt("REVOKE", <<<<All>>>>, <<database, table>>, userOrRoleStr)
        main == DbExec(option.db, sql)
    IN  IF option.err # Nil
        THEN IF Matches1141(option.err)
             THEN [db |-> main.db, err |-> Nil, stop |-> FALSE]
             ELSE [db |-> option.db, stop |-> TRUE,
                   err |-> Errorf("error revoking GRANT", optionSQL, option.err)]
        ELSE IF main.err # Nil
        THEN [db |-> main.db, stop |-> TRUE,
              err |-> Errorf("error revoking ALL", sql, main.err)]
        ELSE [db |-> main.db, err |-> Nil, stop |-> FALSE]

deleteOne_RolesOn(f, db, userOrRoleStr, isRole) ==
    LET database == formatDatabaseName(f.database)
        table == formatTableName(f.table)
        optionSQL == Stmt("REVOKE", <<<<GrantOption>>>>, <<database, table>>, userOrRoleStr)
        option == IF ~isRole /\ Len(List(f.roles)) = 0
                  THEN DbExec(db, optionSQL)
                  ELSE Returned(db, Nil)
        sql == IF Len(List(f.roles)) > 0
               THEN Stmt("REVOKE", Quoted(List(f.roles)), <<database, table>>, userOrRoleStr)
               ELSE IF Len(List(f.privileges)) > 0
               THEN Stmt("REVOKE", Texts(List(f.privileges)), <<database, table>>, userOrRoleStr)
               ELSE Stmt("REVOKE", <<<<All>>>>, <<database, table>>, userOrRoleStr)
        main == DbExec(option.db, sql)
    IN  IF option.err # Nil
        THEN IF Matches1141(option.err)
             THEN [db |-> option.db, err |-> Nil, stop |-> TRUE]
             ELSE [db |-> option.db, stop |-> TRUE,
                   err |-> Errorf("error revoking GRANT", optionSQL, option.err)]
        ELSE IF main.err # Nil
        THEN [db |-> main.db, stop |-> TRUE,
              err |-> Errorf("error revoking ALL", sql, main.err)]
        ELSE [db |-> main.db, err |-> Nil, stop |-> FALSE]

deleteOne_OptionAlways(f, db, userOrRoleStr, isRole) ==
    LET database == formatDatabaseName(f.database)
        table == formatTableName(f.table)
        optionSQL == Stmt("REVOKE", <<<<GrantOption>>>>, <<database, table>>, userOrRoleStr)
        option == IF ~isRole \/ Len(List(f.roles)) = 0
                  THEN DbExec(db, optionSQL)
                  ELSE Returned(db, Nil)
        sql == IF Len(List(f.roles)) > 0
               THEN Stmt("REVOKE", Quoted(List(f.roles)), NoOn, userOrRoleStr)
               ELSE IF Len(List(f.privileges)) > 0
               THEN Stmt("REVOKE", Texts(List(f.privileges)), <<database, table>>, userOrRoleStr)
               ELSE Stmt("REVOKE", <<<<All>>>>, <<database, table>>, userOrRoleStr)
        main == DbExec(option.db, sql)
    IN  IF option.err # Nil
        THEN IF Matches1141(option.err)
             THEN [db |-> option.db, err |-> Nil, stop |-> TRUE]
             ELSE [db |-> option.db, stop |-> TRUE,
                   err |-> Errorf("error revoking GRANT", optionSQL, option.err)]
        ELSE IF main.err # Nil
        THEN [db |-> main.db, stop |-> TRUE,
              err |-> Errorf("error revoking ALL", sql, main.err)]
        ELSE [db |-> main.db, err |-> Nil, stop |-> FALSE]

deleteOne_TolerantMain(f, db, userOrRoleStr, isRole) ==
    LET database == formatDatabaseName(f.database)
        table == formatTableName(f.table)
        optionSQL == Stmt("REVOKE", <<<<GrantOption>>>>, <<database, table>>, userOrRoleStr)
        option == IF ~isRole /\ Len(List(f.roles)) = 0
                  THEN DbExec(db, optionSQL)
                  ELSE Returned(db, Nil)
        sql == IF Len(List(f.roles)) > 0
               THEN Stmt("REVOKE", Quoted(List(f.roles)), NoOn, userOrRoleStr)
               ELSE IF Len(List(f.privileges)) > 0
               THEN Stmt("REVOKE", Texts(List(f.privileges)), <<database, table>>, userOrRoleStr)
               ELSE Stmt("REVOKE", <<<<All>>>>, <<database, table>>, userOrRoleStr)
        main == DbExec(option.db, sql)
    IN  IF option.err # Nil
        THEN IF Matches1141(option.err)
             THEN [db |-> option.db, err |-> Nil, stop |-> TRUE]
             ELSE [db |-> option.db, stop |-> TRUE,
                   err |-> Errorf("error revoking GRANT", optionSQL, option.err)]
        ELSE IF main.err # Nil /\ ~Matches1141(main.err)
        THEN [db |-> main.db, stop |-> TRUE,
              err |-> Errorf("error revoking ALL", sql, main.err)]
        ELSE [db |-> main.db, err |-> Nil, stop |-> FALSE]

(* DeleteGrants, the body of the loop for one spec f *)
deleteOne(f, db, userOrRoleStr, isRole) ==
    LET database == formatDatabaseName(f.database)
        table == formatTableName(f.table)
        optionSQL == Stmt("REVOKE", <<<<GrantOption>>>>, <<database, table>>, userOrRoleStr)
        option == IF ~isRole /\ Len(List(f.roles)) = 0
                  THEN DbExec(db, optionSQL)
                  ELSE Returned(db, Nil)
        sql == IF Len(List(f.roles)) > 0
               THEN Stmt("REVOKE", Quoted(List(f.roles)), NoOn, userOrRoleStr)
               ELSE IF Len(List(f.privileges)) > 0
               THEN Stmt("REVOKE", Texts(List(f.privileges)), <<database, table>>, userOrRoleStr)
               ELSE Stmt("REVOKE", <<<<All>>>>, <<database, table>>, userOrRoleStr)
        main == DbExec(option.db, sql)
    IN  IF option.err # Nil
        THEN IF Matches1141(option.err)
             THEN [db |-> option.db, err |-> Nil, stop |-> TRUE]
             ELSE [db |-> option.db, stop |-> TRUE,
                   err |-> Errorf("error revoking GRANT", optionSQL, option.err)]
        ELSE IF main.err # Nil
        THEN [db |-> main.db, stop |-> TRUE,
              err |-> Errorf("error revoking ALL", sql, main.err)]
        ELSE [db |-> main.db, err |-> Nil, stop |-> FALSE]

(* DeleteGrants, the loop over the declared specs *)
RECURSIVE deleteLoop(_, _, _, _, _)
deleteLoop(i, fs, db, userOrRoleStr, isRole) ==
    IF i > Len(fs) THEN Returned(db, Nil)
    ELSE Once(deleteOne(fs[i], db, userOrRoleStr, isRole), LAMBDA r :
             IF r.stop THEN Returned(r.db, r.err)
             ELSE deleteLoop(i + 1, fs, r.db, userOrRoleStr, isRole))

\* "%s@%s" of user and host
GrantsId(cfg) == cfg.user \o <<"@">> \o cfg.host
NoId == <<>>

\* the resource after a successful creation of the collection c: the data
\* that was declared, and on the server what the GRANT statements of
\* CreateGrants gave
Init ==
    /\ version \in Versions
    /\ \E cfg \in PrincipalCfgs, c \in Collections :
          \E created \in {createLoop(1, expandGrants(c), cfg,
                                     supportsRoles(version), Conn(EmptyServer, NoFault))} :
              /\ created.err = Nil
              /\ server = created.db.server
              /\ d = [cfg |-> cfg, id |-> GrantsId(cfg), grants |-> c]
    /\ log = <<>>
    /\ ret = Nil
    /\ call = NoCall
    /\ drifts = 0

ScopesHeld == {<<t[1], t[2]>> : t \in server.privs}

\* out of band, someone revokes all the principal holds on one scope
ExternalRevoke ==
    \E sc \in ScopesHeld :
        /\ d.id # NoId
        /\ ret = Nil
        /\ drifts < MaxDrift
        /\ drifts' = drifts + 1
        /\ server' = [server EXCEPT
                        !.privs = {t \in @ : <<t[1], t[2]>> # sc}]
        /\ log' = <<>>
        /\ call' = [NoCall EXCEPT !.op = "ExternalRevoke"]
        /\ UNCHANGED <<version, d, ret>>

UpdateFaults == Faults

(* resource_grants.go UpdateGrants *)
UpdateGrants ==
    /\ d.id # NoId
    /\ ret = Nil
    /\ call.op # "UpdateGrants"
    /\ \E newPrivs \in Collections, fault \in UpdateFaults :
           LET hasRoles == supportsRoles(version)
               p == userOrRole(d.cfg.user, d.cfg.host, d.cfg.role, hasRoles)
               db == Conn(server, fault)
               oldPrivs == d.grants
               r == IF p.err # Nil
                    THEN Returned(db, p.err)
                    ELSE IF newPrivs # oldPrivs
                    THEN updatePrivilegesMulti(oldPrivs, newPrivs, db, p.str)
                    ELSE Returned(db, Nil)
           IN  \E done \in {r} :
               /\ server' = done.db.server
               /\ log' = done.db.log
               /\ ret' = done.err
               /\ call' = [op |-> "UpdateGrants", old |-> oldPrivs, new |-> newPrivs,
                           before |-> server, invs |-> done.db.invs,
                           results |-> done.db.results]
               /\ d' = IF done.err = Nil THEN [d EXCEPT !.grants = newPrivs] ELSE d
               /\ UNCHANGED <<version, drifts>>

DeleteFaults == {NoFault} \cup [at : 1..(2 * MaxSpecs), err : {ErrDenied}]

(* resource_grants.go DeleteGrants *)
DeleteGrants ==
    /\ d.id # NoId
    /\ ret = Nil
    /\ \E fault \in DeleteFaults :
           LET hasRoles == supportsRoles(version)
               p == userOrRole(d.cfg.user, d.cfg.host, d.cfg.role, hasRoles)
               db == Conn(server, fault)
               r == IF p.err # Nil
                    THEN Returned(db, p.err)
                    ELSE deleteLoop(1, expandGrants(d.grants), db, p.str, p.isRole)
           IN  \E done \in {r} :
               /\ server' = done.db.server
               /\ log' = done.db.log
               /\ ret' = done.err
               /\ call' = [op |-> "DeleteGrants", old |-> d.grants, new |-> {},
                           before |-> server, invs |-> done.db.invs,
                           results |-> done.db.results]
               /\ d' = IF done.err = Nil THEN [d EXCEPT !.id = NoId] ELSE d
               /\ UNCHANGED <<version, drifts>>

Next == UpdateGrants \/ DeleteGrants \/ ExternalRevoke

Spec == Init /\ [][Next]_vars

----------------------------------------------------------------------------
(* Privilege clauses and utils.go parsePrivileges.  In a clause the atoms   *)
(* are the maximal runs of upper-case letters and of lower-case letters,    *)
(* and each other character by itself.                                      *)

Sp == " "
Cm == ","
LP == "("
RP == ")"
Us == "_"

\* ", "
Comma == <<Cm, Sp>>

Usage == "USAGE"

\* the runs of upper-case letters, [A-Z]+
UpperWords == {"SELECT", "UPDATE", "DELETE", Usage, "CREATE", "VIEW", "BACKUP", "ADMIN",
               "GRANT", "OPTION"}

\* the runs of lower-case letters: column names
ColumnNames == {"id", "user"}

\* the atoms in the order of their bytes
ByteOrder == <<Sp, Cm, "ADMIN", "BACKUP", "CREATE", "DELETE", "GRANT", "OPTION",
               "SELECT", "UPDATE", Usage, "VIEW", Us, BT, "id", "user">>

IsUpper(a) == a \in UpperWords

\* the class [a-zA-Z0-9_, BT]
IsColumnChar(a) == a \in UpperWords \cup ColumnNames \cup {Us, Cm, Sp, BT}

\* the atom at position i, "" past the end
At(s, i) == IF i >= 1 /\ i <= Len(s) THEN s[i] ELSE ""

\* the length of the longest run of the column class that starts at i
RECURSIVE ColumnRun(_, _)
ColumnRun(s, i) ==
    IF IsColumnChar(At(s, i)) THEN 1 + ColumnRun(s, i + 1) ELSE 0

\* [A-Z]+\ ?\([a-zA-Z0-9_,\ BT]+\) at position i: the length of the match, or 0
ColumnGrantAt(s, i) ==
    LET open == IF At(s, i + 1) = LP THEN i + 1
                ELSE IF At(s, i + 1) = Sp /\ At(s, i + 2) = LP THEN i + 2
                ELSE 0
        n == IF open > 0 THEN ColumnRun(s, open + 1) ELSE 0
    IN  IF IsUpper(At(s, i)) /\ open > 0 /\ n > 0 /\ At(s, open + n + 1) = RP
        THEN open + n + 2 - i
        ELSE 0

\* k upper-case words separated by one space each, at position i
WordsAt(s, i, k) ==
    /\ \A j \in 0..(k - 1) : IsUpper(At(s, i + 2 * j))
    /\ \A j \in 1..(k - 1) : At(s, i + 2 * j - 1) = Sp

\* the match of rem1 at position i, the first alternative that matches
MatchAt(s, i) ==
    IF ColumnGrantAt(s, i) > 0 THEN ColumnGrantAt(s, i)
    ELSE IF WordsAt(s, i, 3) THEN 5
    ELSE IF WordsAt(s, i, 2) THEN 3
    ELSE IF WordsAt(s, i, 1) THEN 1
    ELSE 0

\* rem1.FindAllString(s, -1), from position i on
RECURSIVE FindAllString(_, _)
FindAllString(s, i) ==
    IF i > Len(s) THEN <<>>
    ELSE Once(MatchAt(s, i), LAMBDA m :
             IF m = 0 THEN FindAllString(s, i + 1)
             ELSE <<SubSeq(s, i, i + m - 1)>> \o FindAllString(s, i + m))

\* strings.Contains(s, a) for one atom
Contains(s, a) == a \in Range(s)

\* the position of the first a in s
IndexOf(s, a) == CHOOSE k \in 1..Len(s) : s[k] = a /\ \A j \in 1..(k - 1) : s[j] # a

\* strings.TrimSpace
RECURSIVE TrimSpace(_)
TrimSpace(t) ==
    IF Len(t) > 0 /\ t[1] = Sp THEN TrimSpace(Tail(t))
    ELSE IF Len(t) > 0 /\ t[Len(t)] = Sp THEN TrimSpace(SubSeq(t, 1, Len(t) - 1))
    ELSE t

\* strings.Replace(t, a, "", 1)
ReplaceFirst(t, a) ==
    IF Contains(t, a)
    THEN SubSeq(t, 1, IndexOf(t, a) - 1) \o SubSeq(t, IndexOf(t, a) + 1, Len(t))
    ELSE t

\* strings.Split(t, ", ")
RECURSIVE SplitComma(_)
SplitComma(t) ==
    LET cuts == {j \in 1..(Len(t) - 1) : t[j] = Cm /\ t[j + 1] = Sp}
    IN  IF cuts = {} THEN <<t>>
        ELSE LET j == CHOOSE c \in cuts : \A e \in cuts : c <= e
             IN  <<SubSeq(t, 1, j - 1)>> \o SplitComma(SubSeq(t, j + 2, Len(t)))

\* strings.Join(list, sep)
RECURSIVE Join(_, _)
Join(list, sep) ==
    IF Len(list) = 0 THEN <<>>
    ELSE IF Len(list) = 1 THEN list[1]
    ELSE list[1] \o sep \o Join(Tail(list), sep)

Rank(a) == CHOOSE k \in 1..Len(ByteOrder) : ByteOrder[k] = a

\* x < y as strings
RECURSIVE LessText(_, _)
LessText(x, y) ==
    IF Len(y) = 0 THEN FALSE
    ELSE IF Len(x) = 0 THEN TRUE
    ELSE IF x[1] = y[1] THEN LessText(Tail(x), Tail(y))
    ELSE Rank(x[1]) < Rank(y[1])

RECURSIVE InsertSorted(_, _)
InsertSorted(x, sorted) ==
    IF Len(sorted) = 0 THEN <<x>>
    ELSE IF LessText(sorted[1], x) THEN <<sorted[1]>> \o InsertSorted(x, Tail(sorted))
    ELSE <<x>> \o sorted

\* sort.Strings
RECURSIVE SortStrings(_)
SortStrings(list) ==
    IF Len(list) = 0 THEN <<>>
    ELSE InsertSorted(list[1], SortStrings(Tail(list)))

columnGrant_NoTrim(priv) ==
    LET k == IndexOf(priv, LP)
        grantAction == SubSeq(priv, 1, k - 1)
        columns == SplitComma(ReplaceFirst(SubSeq(priv, k + 1, Len(priv)), RP))
    IN  grantAction \o <<Sp, LP>> \o Join(SortStrings(columns), Comma) \o <<RP>>

columnGrant_NoSort(priv) ==
    LET k == IndexOf(priv, LP)
        grantAction == TrimSpace(SubSeq(priv, 1, k - 1))
        columns == SplitComma(ReplaceFirst(SubSeq(priv, k + 1, Len(priv)), RP))
    IN  grantAction \o <<Sp, LP>> \o Join(columns, Comma) \o <<RP>>

\* parsePrivileges, the branch of a token with a column list
columnGrant(priv) ==
    LET k == IndexOf(priv, LP)
        grantAction == TrimSpace(SubSeq(priv, 1, k - 1))
        columns == SplitComma(ReplaceFirst(SubSeq(priv, k + 1, Len(priv)), RP))
    IN  grantAction \o <<Sp, LP>> \o Join(SortStrings(columns), Comma) \o <<RP>>

(* utils.go parsePrivileges *)
parsePrivileges(privilegesString) ==
    LET privList == FindAllString(privilegesString, 1)
    IN  [i \in 1..Len(privList) |->
            IF Contains(privList[i], LP)
            THEN columnGrant(privList[i])
            ELSE TrimSpace(privList[i])]

----------------------------------------------------------------------------
(* Reading the grants back: SHOW GRANTS, showGrants, ReadGrants *)

\* the order in which the server prints privileges
ServerOrder == <<"SELECT", "UPDATE", "DELETE">>

\* "SELECT, UPDATE": the names the server prints, separated by ", "
Joined(names) == Join(Texts(names), Comma)

PrintName(name) == IF name = Star THEN Star ELSE Quote(name)

\* One row of SHOW GRANTS for the principal: the privileges and the scope of
\* "GRANT <privs> ON <db>.<tb> TO ... [WITH GRANT OPTION]", or for a granted
\* role "GRANT <role> TO ...", which has no ON clause.
ScopeRow(srv, db, tb) ==
    LET held == HeldOn(srv, db, tb)
        names == SelectSeq(ServerOrder, LAMBDA q : q \in held)
    IN  [privs |-> IF Len(names) = 0 THEN <<Usage>> ELSE Joined(names),
         on |-> <<PrintName(db), PrintName(tb)>>,
         grantOption |-> GrantOption \in held]

RoleRow(role) ==
    [privs |-> Quote(<<role>>) \o <<"@">> \o Quote(<<"%">>), on |-> NoOn,
     grantOption |-> FALSE]

\* the scopes of S in the order of the report: a whole database before its
\* tables
RECURSIVE ScopesInOrder(_)
ScopesInOrder(S) ==
    IF S = {} THEN <<>>
    ELSE Once(CHOOSE x \in S : \A y \in S : y[2] = Star => x[2] = Star,
              LAMBDA first : <<first>> \o ScopesInOrder(S \ {first}))

\* the rows of SHOW GRANTS in the order of the report: the global row, one
\* row for each scope on which the principal holds something, one row for
\* each role granted to it
ShowGrantsRows(srv) ==
    LET scopes == ScopesInOrder({<<t[1], t[2]>> : t \in srv.privs} \ {<<Star, Star>>})
        roles == List(srv.roles)
    IN  <<ScopeRow(srv, Star, Star)>>
        \o [i \in 1..Len(scopes) |-> ScopeRow(srv, scopes[i][1], scopes[i][2])]
        \o [i \in 1..Len(roles) |-> RoleRow(roles[i])]

\* the privilege a token of one word names
PrivName(token) == token[1]

\* strings.ReplaceAll(s, backtick, "")
ReplaceAllBT(t) == SelectSeq(t, LAMBDA a : a # BT)

\* strings.Trim(s, backtick)
RECURSIVE TrimBT(_)
TrimBT(t) ==
    IF Len(t) > 0 /\ t[1] = BT THEN TrimBT(Tail(t))
    ELSE IF Len(t) > 0 /\ t[Len(t)] = BT THEN TrimBT(SubSeq(t, 1, Len(t) - 1))
    ELSE t

ErrParse == Error("failed to parse grant statement")

\* the regular expression ^GRANT (.+) ON (.+?)\.(.+?) TO needs the ON clause
RowMatches(row) == row.on # NoOn

\* rawGrant, the text of one row up to the principal, which is the same on
\* every row, and what follows the principal
RawGrant(row) ==
    <<"GRANT", Sp>> \o row.privs \o <<Sp, "ON", Sp>> \o row.on[1] \o <<".">>
        \o row.on[2] \o <<Sp, "TO">>
        \o (IF row.grantOption THEN <<Sp, "WITH", Sp, "GRANT", Sp, "OPTION">> ELSE <<>>)

\* the atoms that are no word characters, and the end of the text
NonWord == {Sp, Cm, LP, RP, BT, SQ, ".", "@", "*", ""}

\* reGrant.MatchString(s), the regular expression \bGRANT OPTION\b
reGrantMatchString(s) ==
    \E i \in 1..Len(s) :
        /\ At(s, i) = "GRANT" /\ At(s, i + 1) = Sp /\ At(s, i + 2) = "OPTION"
        /\ At(s, i - 1) \in NonWord /\ At(s, i + 3) \in NonWord

\* the MySQLGrant of one row
MySQLGrant(row) ==
    [Database |-> ReplaceAllBT(row.on[1]),
     Table |-> TrimBT(row.on[2]),
     Privileges |-> parsePrivileges(row.privs),
     Grant |-> reGrantMatchString(RawGrant(row))]

RECURSIVE rowsLoop_KeepParsed(_, _, _)
rowsLoop_KeepParsed(rows, i, grants) ==
    IF i > Len(rows) THEN [grants |-> grants, err |-> Nil]
    ELSE IF ~RowMatches(rows[i]) THEN [grants |-> grants, err |-> ErrParse]
    ELSE rowsLoop_KeepParsed(rows, i + 1, Append(grants, MySQLGrant(rows[i])))

(* showGrants, the loop over the rows *)
RECURSIVE rowsLoop(_, _, _)
rowsLoop(rows, i, grants) ==
    IF i > Len(rows) THEN [grants |-> grants, err |-> Nil]
    ELSE IF ~RowMatches(rows[i]) THEN [grants |-> <<>>, err |-> ErrParse]
    ELSE rowsLoop(rows, i + 1, Append(grants, MySQLGrant(rows[i])))

(* resource_grant.go showGrants; queryErr is what db.Query returns *)
showGrants(srv, queryErr) ==
    IF queryErr # Nil
    THEN [grants |-> <<>>, err |-> queryErr]
    ELSE rowsLoop(ShowGrantsRows(srv), 1, <<>>)

\* showGrants was not called
NotShown == [called |-> FALSE, grants |-> <<>>, err |-> Nil]

\* the entry of the grants collection made of one MySQLGrant
GrantResource(g) ==
    SubGrant(g.Database, g.Table, {PrivName(t) : t \in Range(g.Privileges)}, {}, g.Grant)

\* subGranterLoop_SkipUsage: the loop that leaves out the records that carry
\* no privilege
subGranterLoop_SkipUsage(grants) ==
    LET kept == SelectSeq(grants, LAMBDA g : g.Privileges # <<<<Usage>>>>)
    IN  [i \in 1..Len(kept) |-> GrantResource(kept[i])]

(* ReadGrants, the loop that fills subGranter *)
subGranterLoop(grants) == [i \in 1..Len(grants) |-> GrantResource(grants[i])]

(* resource_grants.go ReadGrants, on the resource data rd; shown is what *)
(* showGrants returned to it, subGranter the list handed to d.Set        *)
ReadGrants(rd, srv, hasRoles, queryErr) ==
    LET p == userOrRole(rd.cfg.user, rd.cfg.host, rd.cfg.role, hasRoles)
        grants == showGrants(srv, queryErr)
        shown == [called |-> TRUE, grants |-> grants.grants, err |-> grants.err]
        subGranter == subGranterLoop(grants.grants)
    IN  IF p.err # Nil
        THEN [d |-> rd, err |-> p.err, shown |-> NotShown, subGranter |-> <<>>]
        ELSE IF grants.err # Nil
        THEN [d |-> [rd EXCEPT !.id = NoId], err |-> Nil, shown |-> shown,
              subGranter |-> <<>>]
        ELSE [d |-> [rd EXCEPT !.grants = Range(subGranter)],
              err |-> Nil, shown |-> shown, subGranter |-> subGranter]

----------------------------------------------------------------------------
(* The creation of a mysql_grants resource *)

\* a spec that names privileges and roles at once
BothSpec == SubGrant(<<"d">>, Star, {"SELECT", "UPDATE"}, {"TFRole"}, FALSE)

CreateUniverse == SpecUniverse \cup {BothSpec}

\* roles has ConflictsWith "grants.0.privileges": a block with roles is
\* refused when the block written first names privileges
ConflictsWith(c, first) == \E f \in c : f.roles # {} /\ first.privileges # {}

CreateCollections ==
    {c \in SUBSET CreateUniverse :
        /\ Cardinality(c) <= MaxSpecs
        /\ c = {} \/ \E first \in c : ~ConflictsWith(c, first)}

\* The grants blocks in the order the configuration writes them: the blocks
\* of a collection in any order whose first block lets the schema accept it.
\* The resource data keeps them as a schema.Set (Type: schema.TypeSet).
Declarations ==
    {blocks \in UNION {[1..n -> CreateUniverse] : n \in 0..MaxSpecs} :
        /\ \A i, j \in 1..Len(blocks) : i # j => blocks[i] # blocks[j]
        /\ blocks = <<>> \/ ~ConflictsWith(Range(blocks), blocks[1])}

\* tls_option as the caller wrote it, or not at all
TlsDeclared == {[declared |-> FALSE, value |-> <<>>],
                [declared |-> TRUE, value |-> <<"SSL">>],
                [declared |-> TRUE, value |-> <<>>]}

\* the schema default of tls_option
TlsDefault == <<"NONE">>

\* d.Get("tls_option")
GetTlsOption(tls) == IF tls.declared THEN tls.value ELSE TlsDefault

\* before the creation: the declared configuration, no ID, and a principal
\* that holds nothing on the server
InitCreate ==
    /\ version \in Versions
    /\ \E cfg \in PrincipalCfgs, tls \in TlsDeclared, blocks \in Declarations :
          d = [cfg |-> [cfg EXCEPT !.tls_option = GetTlsOption(tls)],
               tls |-> tls, id |-> NoId, grants |-> Range(blocks),
               declared |-> blocks]
    /\ server = EmptyServer
    /\ log = <<>>
    /\ ret = Nil
    /\ call = NoCall
    /\ drifts = 0

CreateFaults == {NoFault} \cup [at : 1..MaxSpecs, err : {ErrDenied}]

(* resource_grants.go CreateGrants *)
CreateGrants ==
    /\ d.id = NoId
    /\ call.op = ""
    /\ \E fault \in CreateFaults :
           \E done \in {createLoop(1, expandGrants(d.grants), d.cfg,
                                   supportsRoles(version), Conn(server, fault))} :
               \E read \in {IF done.err # Nil
                            THEN [d |-> d, err |-> done.err]
                            ELSE ReadGrants([d EXCEPT !.id = GrantsId(d.cfg)],
                                            done.db.server, supportsRoles(version), Nil)} :
                   /\ server' = done.db.server
                   /\ log' = done.db.log
                   /\ ret' = read.err
                   /\ d' = read.d
                   /\ call' = [op |-> "CreateGrants", old |-> {}, new |-> d.grants,
                               before |-> server, invs |-> <<>>,
                               results |-> done.db.results]
                   /\ UNCHANGED <<version, drifts>>

NextCreate == CreateGrants

SpecCreate == InitCreate /\ [][NextCreate]_vars

----------------------------------------------------------------------------
(* The refresh of a mysql_grants resource *)

\* what db.Query("SHOW GRANTS FOR ...") can return: rows, error 1141 when
\* the principal is gone, another error of the server
QueryErrors == {Nil, Err1141, ErrDenied}

NoRead == [op |-> "", rows |-> <<>>, shown |-> NotShown, queryErr |-> Nil,
           before |-> <<>>, subGranter |-> <<>>, after |-> ""]

\* a resource that was created, with the ID set, and a server that holds
\* what the creation granted
InitRead ==
    /\ version \in Versions
    /\ \E cfg \in PrincipalCfgs, c \in Collections :
          \E created \in {createLoop(1, expandGrants(c), cfg,
                                     supportsRoles(version), Conn(EmptyServer, NoFault))} :
              /\ created.err = Nil
              /\ server = created.db.server
              /\ d = [cfg |-> cfg, id |-> GrantsId(cfg), grants |-> c]
    /\ log = <<>>
    /\ ret = Nil
    /\ call = NoRead
    /\ drifts = 0

\* out of band, someone revokes all the principal holds on one scope
ReadDrift ==
    \E sc \in ScopesHeld :
        /\ call.op = ""
        /\ drifts < MaxDrift
        /\ drifts' = drifts + 1
        /\ server' = [server EXCEPT !.privs = {t \in @ : <<t[1], t[2]>> # sc}]
        /\ UNCHANGED <<version, d, log, ret, call>>

\* strings.LastIndex(s, a) for a of one character, counted from 0
LastIndex(s, a) ==
    IF ~Contains(s, a) THEN 0 - 1
    ELSE (CHOOSE k \in 1..Len(s) : s[k] = a /\ \A j \in (k + 1)..Len(s) : s[j] # a) - 1

ErrWrongId == Error("wrong ID format (expected USER@HOST)")

\* the entry restoreGrants makes of one MySQLGrant
RestoredResource(g) ==
    SubGrant(formatDatabaseName(g.Database), formatTableName(g.Table),
             {PrivName(t) : t \in Range(g.Privileges)}, {}, g.Grant)

(* resource_grants.go restoreGrants *)
restoreGrants(user, host, grants) ==
    LET grantResources == [i \in 1..Len(grants) |-> RestoredResource(grants[i])]
    IN  [d |-> [cfg |-> [user |-> user, host |-> host, role |-> <<>>,
                         tls_option |-> <<"NONE">>],
                id |-> user \o <<"@">> \o host,
                grants |-> Range(grantResources)],
         grantResources |-> grantResources]

(* resource_grants.go ImportGrants, on the resource data that carries the *)
(* ID the caller typed                                                    *)
ImportGrants(rd, srv, queryErr) ==
    LET lastSeparatorIndex == LastIndex(rd.id, "@")
        user == SubSeq(rd.id, 1, lastSeparatorIndex)
        host == SubSeq(rd.id, lastSeparatorIndex + 2, Len(rd.id))
        grants == showGrants(srv, queryErr)
        shown == [called |-> TRUE, grants |-> grants.grants, err |-> grants.err]
        restored == restoreGrants(user, host, grants.grants)
    IN  IF lastSeparatorIndex <= 0
        THEN [d |-> rd, err |-> ErrWrongId, shown |-> NotShown, subGranter |-> <<>>]
        ELSE IF grants.err # Nil
        THEN [d |-> rd, err |-> grants.err, shown |-> shown, subGranter |-> <<>>]
        ELSE [d |-> restored.d, err |-> Nil, shown |-> shown,
              subGranter |-> restored.grantResources]

\* terraform import of the principal under its ID
ImportGrantsCall ==
    /\ d.id # NoId
    /\ call.op = ""
    /\ \E queryErr \in QueryErrors :
           \E imported \in {ImportGrants(d, server, queryErr)} :
               /\ d' = imported.d
               /\ ret' = imported.err
               /\ call' = [op |-> "ImportGrants", rows |-> ShowGrantsRows(server),
                           shown |-> imported.shown, queryErr |-> queryErr,
                           before |-> d, subGranter |-> imported.subGranter,
                           after |-> call.op]
               /\ UNCHANGED <<version, server, log, drifts>>

(* resource_grants.go ReadGrants, called by the refresh, of a resource that *)
(* was created or one that was just imported                                *)
ReadGrantsCall ==
    /\ d.id # NoId
    /\ call.op = "" \/ (call.op = "ImportGrants" /\ ret = Nil)
    /\ \E queryErr \in QueryErrors :
           \E read \in {ReadGrants(d, server, supportsRoles(version), queryErr)} :
               /\ d' = read.d
               /\ ret' = read.err
               /\ call' = [op |-> "ReadGrants", rows |-> ShowGrantsRows(server),
                           shown |-> read.shown, queryErr |-> queryErr, before |-> d,
                           subGranter |-> read.subGranter, after |-> call.op]
               /\ UNCHANGED <<version, server, log, drifts>>

\* the update that follows a refresh: its old collection is what the
\* refresh recorded
UpdateAfterRead ==
    /\ call.op = "ReadGrants"
    /\ UpdateGrants

NextRead == ReadGrantsCall \/ ReadDrift \/ UpdateAfterRead \/ ImportGrantsCall

SpecRead == InitRead /\ [][NextRead]_vars

----------------------------------------------------------------------------
(* Two passes of updatePrivileges on one scope of one principal, each from *)
(* a caller of its own                                                     *)

Passes == {"A", "B"}

RaceUser == userOrRole(UserCfg.user, UserCfg.host, UserCfg.role, FALSE).str
RaceDatabase == formatDatabaseName(<<"d">>)
RaceTable == formatTableName(Star)

\* what each caller recorded and what it wants: a pass is started for a
\* change only
PassData == {a \in [newPrivs : SUBSET Privs, oldPrivs : SUBSET Privs] :
                a.newPrivs # a.oldPrivs}

\* where a pass stands: before its REVOKE block, before its GRANT block, or
\* returned
PassStart == "revoke"

\* both passes are started; the server holds what caller A recorded
InitRace ==
    /\ version = <<8, 0, 21>>
    /\ d \in [Passes -> PassData]
    /\ server = [privs |-> {<<<<"d">>, Star, q>> : q \in d["A"].oldPrivs}, roles |-> {}]
    /\ log = <<>>
    /\ ret = Nil
    /\ call = [pc |-> [p \in Passes |-> PassStart], err |-> [p \in Passes |-> Nil],
               by |-> <<>>]
    /\ drifts = 0

\* the pass that serialises itself with the other: it does not start while
\* the other is between its two blocks
PassReady_Serialized(p) ==
    /\ call.pc[p] # "done"
    /\ call.pc[p] = PassStart => \A q \in Passes \ {p} : call.pc[q] # "grant"

\* updatePrivileges takes no lock and asks nobody: a pass that has not
\* returned can take its next step
PassReady(p) == call.pc[p] # "done"

(* updatePrivileges, the block of the REVOKE *)
RevokeBlock(p) ==
    /\ PassReady(p)
    /\ call.pc[p] = "revoke"
    /\ LET revokeIfs == List(Difference(d[p].oldPrivs, d[p].newPrivs))
           stmt == Stmt("REVOKE", Texts(revokeIfs), <<RaceDatabase, RaceTable>>, RaceUser)
       IN  IF Len(revokeIfs) > 0
           THEN \E r \in {ServerExec(server, stmt)} :
                    /\ server' = r.server
                    /\ log' = Append(log, stmt)
                    /\ call' = [call EXCEPT !.pc[p] = IF r.err # Nil THEN "done" ELSE "grant",
                                            !.err[p] = r.err,
                                            !.by = Append(@, p)]
           ELSE /\ call' = [call EXCEPT !.pc[p] = "grant"]
                /\ UNCHANGED <<server, log>>
    /\ UNCHANGED <<version, d, ret, drifts>>

(* updatePrivileges, the block of the GRANT and the return *)
GrantBlock(p) ==
    /\ PassReady(p)
    /\ call.pc[p] = "grant"
    /\ LET grantIfs == List(Difference(d[p].newPrivs, d[p].oldPrivs))
           stmt == Stmt("GRANT", Texts(grantIfs), <<RaceDatabase, RaceTable>>, RaceUser)
       IN  IF Len(grantIfs) > 0
           THEN \E r \in {ServerExec(server, stmt)} :
                    /\ server' = r.server
                    /\ log' = Append(log, stmt)
                    /\ call' = [call EXCEPT !.pc[p] = "done", !.err[p] = r.err,
                                            !.by = Append(@, p)]
           ELSE /\ call' = [call EXCEPT !.pc[p] = "done"]
                /\ UNCHANGED <<server, log>>
    /\ UNCHANGED <<version, d, ret, drifts>>

PassStep(p) == RevokeBlock(p) \/ GrantBlock(p)

NextRace == \E p \in Passes : PassStep(p)

SpecRace == InitRace /\ [][NextRace]_vars

----------------------------------------------------------------------------
(* The helpers of utils.go, called on their own *)

ProbeVersions == {<<5, 7, 30>>, <<7, 9, 9>>, <<8, 0, 0>>, <<8, 0, 1>>, <<8, 0, 21>>, <<10, 3, 2>>}
UserNames == {<<>>, <<"jdoe">>}
HostNames == {<<>>, <<"localhost">>, <<"example.com">>}
RoleArgs == {<<>>, <<"TFRole">>}

\* version is what the server reports; d holds the arguments at hand
InitHelpers ==
    /\ version \in ProbeVersions
    /\ d \in [user : UserNames, host : HostNames, role : RoleArgs]
    /\ server = EmptyServer
    /\ log = <<>>
    /\ ret = Nil
    /\ call = [op |-> "", args |-> <<>>, result |-> FALSE]
    /\ drifts = 0

CallUserOrRole ==
    \E hasRoles \in BOOLEAN :
        /\ call' = [op |-> "userOrRole",
                    args |-> <<d.user, d.host, d.role, hasRoles>>,
                    result |-> userOrRole(d.user, d.host, d.role, hasRoles)]
        /\ UNCHANGED <<version, server, d, log, ret, drifts>>

CallSupportsRoles ==
    /\ call' = [op |-> "supportsRoles", args |-> <<version>>,
                result |-> supportsRoles(version)]
    /\ UNCHANGED <<version, server, d, log, ret, drifts>>

NextHelpers == CallUserOrRole \/ CallSupportsRoles

SpecHelpers == InitHelpers /\ [][NextHelpers]_vars

----------------------------------------------------------------------------
(* parsePrivileges, called on privilege clauses *)

\* what a clause can name: one word, two words, a dynamic privilege of
\* MySQL 8 whose name has an underscore
Capabilities == {<<"SELECT">>, <<"UPDATE">>, <<"CREATE", Sp, "VIEW">>,
                 <<"BACKUP", Us, "ADMIN">>}

ColumnLists == {<<"id">>, <<"id", "user">>, <<"user", "id">>}
ColumnSeparators == {Comma, <<Cm>>}
Separators == {Comma, <<Cm>>}

\* one privilege of a clause: the capability, and for a column privilege
\* its columns, the space before the parenthesis and the column separator
ClauseItems ==
    {[cap |-> c, cols |-> <<>>, space |-> FALSE, colsep |-> Comma] : c \in Capabilities}
    \cup {[cap |-> <<"SELECT">>, cols |-> cs, space |-> sp, colsep |-> sep] :
              cs \in ColumnLists, sp \in BOOLEAN, sep \in ColumnSeparators}

ItemText(it) ==
    IF it.cols = <<>> THEN it.cap
    ELSE it.cap \o (IF it.space THEN <<Sp>> ELSE <<>>) \o <<LP>>
         \o Join(Texts(it.cols), it.colsep) \o <<RP>>

\* the text of the clause: the items, each followed by its separator
RECURSIVE ClauseText(_, _)
ClauseText(items, seps) ==
    IF Len(items) = 0 THEN <<>>
    ELSE IF Len(items) = 1 THEN ItemText(items[1])
    ELSE ItemText(items[1]) \o seps[1] \o ClauseText(Tail(items), Tail(seps))

Clauses ==
    UNION {[items : [1..n -> ClauseItems], seps : [1..(n - 1) -> Separators]] :
               n \in 1..MaxPrivs}

\* the same clause with the columns of every column privilege in reverse
Reordered(items) ==
    [i \in 1..Len(items) |->
        [items[i] EXCEPT !.cols = [j \in 1..Len(@) |-> @[Len(@) + 1 - j]]]]

NoParse == [op |-> "", args |-> <<>>, result |-> <<>>, prev |-> <<>>]

InitParse ==
    /\ d \in Clauses
    /\ version = <<8, 0, 21>>
    /\ server = EmptyServer
    /\ log = <<>>
    /\ ret = Nil
    /\ call = NoParse
    /\ drifts = 0

CallParsePrivileges ==
    /\ call.op = ""
    /\ \E privilegesString \in {ClauseText(d.items, d.seps)} :
           call' = [op |-> "parsePrivileges", args |-> <<privilegesString>>,
                    result |-> parsePrivileges(privilegesString), prev |-> <<>>]
    /\ UNCHANGED <<version, server, d, log, ret, drifts>>

\* the result of the call is joined with ", " and parsed again
CallParseRendered ==
    /\ call.op = "parsePrivileges"
    /\ \E privilegesString \in {Join(call.result, Comma)} :
           call' = [op |-> "parseRendered", args |-> <<privilegesString>>,
                    result |-> parsePrivileges(privilegesString), prev |-> call.result]
    /\ UNCHANGED <<version, server, d, log, ret, drifts>>

\* the clause is parsed again with its columns in another order
CallParseReordered ==
    /\ call.op = "parsePrivileges"
    /\ \E privilegesString \in {ClauseText(Reordered(d.items), d.seps)} :
           call' = [op |-> "parseReordered", args |-> <<privilegesString>>,
                    result |-> parsePrivileges(privilegesString), prev |-> call.result]
    /\ UNCHANGED <<version, server, d, log, ret, drifts>>

NextParse == CallParsePrivileges \/ CallParseRendered \/ CallParseReordered

SpecParse == InitParse /\ [][NextParse]_vars

----------------------------------------------------------------------------
(* showGrants, called on one row of a report *)

\* privilege clauses as a server can print them: one privilege, none, a
\* column list, and GRANT OPTION as a phrase and as a part of a longer word
RowClauses ==
    {<<"SELECT">>, <<Usage>>, <<"SELECT", Sp, LP, BT, "id", BT, RP>>,
     <<"SELECT", Cm, Sp, "GRANT", Sp, "OPTION">>,
     <<"GRANT", Sp, "OPTION", Us, "ADMIN">>}

\* identifiers as the server prints them: the wildcard, a name in backticks,
\* and the name a`b, whose backtick is printed twice
RowNames == {Star, Quote(<<"d">>), Quote(<<"a", BT, BT, "b">>)}

ReportRows ==
    [privs : RowClauses, on : RowNames \X RowNames, grantOption : BOOLEAN]

NoRows == [op |-> "", row |-> <<>>, result |-> <<>>]

InitRows ==
    /\ d \in [row : ReportRows]
    /\ version = <<8, 0, 21>>
    /\ server = EmptyServer
    /\ log = <<>>
    /\ ret = Nil
    /\ call = NoRows
    /\ drifts = 0

\* showGrants on a report of the one row
CallShowGrants ==
    /\ call.op = ""
    /\ \E shown \in {rowsLoop(<<d.row>>, 1, <<>>)} :
           /\ call' = [op |-> "showGrants", row |-> d.row, result |-> shown.grants]
           /\ ret' = shown.err
    /\ UNCHANGED <<version, server, d, log, drifts>>

NextRows == CallShowGrants

SpecRows == InitRows /\ [][NextRows]_vars

----------------------------------------------------------------------------
(* formatDatabaseName and formatTableName, called on identifiers *)

NameAtoms == {BT, "PROCEDURE ", "d", "*"}

\* the identifiers: the empty name, the wildcard, bare names, names that are
\* quoted already or in part, names with the PROCEDURE prefix
Identifiers == UNION {[1..n -> NameAtoms] : n \in 0..MaxNameLen}

NoFormat == [op |-> "", args |-> <<>>, result |-> <<>>, prev |-> <<>>]

InitFormat ==
    /\ d \in [name : Identifiers]
    /\ version = <<8, 0, 21>>
    /\ server = EmptyServer
    /\ log = <<>>
    /\ ret = Nil
    /\ call = NoFormat
    /\ drifts = 0

CallFormatDatabaseName ==
    /\ call.op = ""
    /\ call' = [op |-> "formatDatabaseName", args |-> <<d.name>>,
                result |-> formatDatabaseName(d.name), prev |-> <<>>]
    /\ UNCHANGED <<version, server, d, log, ret, drifts>>

\* the result of the call is formatted again
CallFormatDatabaseNameAgain ==
    /\ call.op = "formatDatabaseName"
    /\ call' = [op |-> "formatDatabaseNameAgain", args |-> <<call.result>>,
                result |-> formatDatabaseName(call.result), prev |-> call.result]
    /\ UNCHANGED <<version, server, d, log, ret, drifts>>

CallFormatTableName ==
    /\ call.op = ""
    /\ call' = [op |-> "formatTableName", args |-> <<d.name>>,
                result |-> formatTableName(d.name), prev |-> <<>>]
    /\ UNCHANGED <<version, server, d, log, ret, drifts>>

NextFormat ==
    CallFormatDatabaseName \/ CallFormatDatabaseNameAgain \/ CallFormatTableName

SpecFormat == InitFormat /\ [][NextFormat]_vars

----------------------------------------------------------------------------
(* Properties of the single-scope reconciliation *)

WhatSet(stmt) == {w[1] : w \in Range(stmt.what)}

Verbs(stmts, verb) == {j \in 1..Len(stmts) : stmts[j].verb = verb}

Revoked == UNION {WhatSet(log[j]) : j \in Verbs(log, "REVOKE")}
Granted == UNION {WhatSet(log[j]) : j \in Verbs(log, "GRANT")}

\* C1: an invocation of updatePrivileges with desired set N (newPrivs) and
\* current set O (oldPrivs) sends no statement other than one REVOKE naming
\* exactly O \ N and one GRANT naming exactly N \ O, both on the scope and
\* for the principal it was given; the REVOKE is sent iff O \ N is not
\* empty, and when the invocation returns without error the GRANT is sent
\* iff N \ O is not empty.  So current empty gives one GRANT only, desired
\* empty one REVOKE only, and N = O nothing.
C1_SingleScopeDiff ==
    \A i \in 1..Len(call.invs) :
        LET v == call.invs[i]
            toRevoke == v.oldPrivs \ v.newPrivs
            toGrant == v.newPrivs \ v.oldPrivs
            stmts == SubSeq(log, v.first, v.last)
            Names(st, S) == /\ WhatSet(st) = S
                            /\ Len(st.what) = Cardinality(S)
                            /\ st.on = <<v.database, v.table>>
                            /\ st.to = v.user
            nRevoke == Cardinality(Verbs(stmts, "REVOKE"))
            nGrant == Cardinality(Verbs(stmts, "GRANT"))
        IN  /\ Len(stmts) = nRevoke + nGrant
            /\ \A j \in Verbs(stmts, "REVOKE") : Names(stmts[j], toRevoke)
            /\ \A j \in Verbs(stmts, "GRANT") : Names(stmts[j], toGrant)
            /\ nRevoke = IF toRevoke # {} THEN 1 ELSE 0
            /\ nGrant <= 1
            /\ nGrant = 1 => toGrant # {}
            /\ v.err = Nil /\ toGrant # {} => nGrant = 1

\* an invocation that both revoked and granted, and returned without error
C1_Witness ==
    /\ Len(call.invs) = 1
    /\ call.invs[1].err = Nil
    /\ call.invs[1].oldPrivs \ call.invs[1].newPrivs # {}
    /\ call.invs[1].newPrivs \ call.invs[1].oldPrivs # {}
    /\ call.invs[1].newPrivs \cap call.invs[1].oldPrivs # {}
    /\ Len(log) = 2

\* C2: an UpdateGrant that changes the privileges from O (call.old) to N
\* (call.new) and returns without error has revoked exactly O \ N and
\* granted exactly N \ O.
C2_UpdateGrantDirection ==
    call.op = "UpdateGrant" /\ ret = Nil =>
        /\ Revoked = call.old \ call.new
        /\ Granted = call.new \ call.old

----------------------------------------------------------------------------
(* Properties of the multi-scope reconciliation *)

\* the (database, table) key of a spec, as the statements spell it
ScopeKey(f) == <<formatDatabaseName(f.database), formatTableName(f.table)>>

UniqueKeys(c) == \A f \in c, g \in c : ScopeKey(f) = ScopeKey(g) => f = g

\* the privileges the principal holds on the scope of spec f
HeldFor(srv, f) ==
    HeldOn(srv, Unquote(ScopeKey(f)[1]), Unquote(ScopeKey(f)[2])) \cap Privs

\* the server holds on every scope exactly what collection c declares for it
ServerEquals(srv, c) ==
    /\ \A f \in c : HeldFor(srv, f) = UNION {g.privileges : g \in {h \in c : ScopeKey(h) = ScopeKey(f)}}
    /\ \A t \in srv.privs : \E f \in c : <<t[1], t[2]>> = <<Unquote(ScopeKey(f)[1]), Unquote(ScopeKey(f)[2])>>

Updated == call.op = "UpdateGrants" /\ ret = Nil

\* the statements of the log on scope key k, as <<verb, set of names>>
OnScope(k) == {j \in 1..Len(log) : log[j].on = k}

\* C3: after an UpdateGrants pass that returns without error, when the
\* server held exactly the old collection at entry and the scope keys are
\* unique within the old and within the new collection, the server holds on
\* the scope of every new spec exactly the privileges that spec declares,
\* and on the scope of every old spec without a new spec on its key none of
\* the privileges the old spec declared.
C3_UpdateConverges ==
    Updated /\ ServerEquals(call.before, call.old)
            /\ UniqueKeys(call.old) /\ UniqueKeys(call.new) =>
        /\ \A f \in call.new : HeldFor(server, f) = f.privileges
        /\ \A f \in call.old :
               (\A g \in call.new : ScopeKey(g) # ScopeKey(f)) =>
                   HeldFor(server, f) \cap f.privileges = {}

\* a mixed change: one scope removed, one added, under the preconditions
C3_Witness ==
    /\ Updated /\ ServerEquals(call.before, call.old)
    /\ UniqueKeys(call.old) /\ UniqueKeys(call.new)
    /\ \E f \in call.old : f.privileges # {} /\ \A g \in call.new : ScopeKey(g) # ScopeKey(f)
    /\ \E g \in call.new : g.privileges # {} /\ \A f \in call.old : ScopeKey(g) # ScopeKey(f)
    /\ Revoked # {} /\ Granted # {}

\* the statements invocation v of updatePrivileges sent
Sent(v) == SubSeq(log, v.first, v.last)
RevokedBy(v) == UNION {WhatSet(Sent(v)[j]) : j \in Verbs(Sent(v), "REVOKE")}
GrantedBy(v) == UNION {WhatSet(Sent(v)[j]) : j \in Verbs(Sent(v), "GRANT")}
Invs == {call.invs[i] : i \in 1..Len(call.invs)}

\* C4: in an update that returns without error, an old spec o and a new
\* spec n of the changed specs with equal (database, table) key are
\* reconciled as a pair: for o there is one invocation of the single-scope
\* diff, with o's privileges as current and the privileges of such an n as
\* desired; it revokes o \ n and grants n \ o, and its statements name the
\* key of the pair.
C4_MatchedPairs ==
    Updated =>
        \A o \in call.old \ call.new :
            (\E n \in call.new \ call.old : ScopeKey(n) = ScopeKey(o)) =>
                /\ Cardinality({i \in 1..Len(call.invs) :
                       /\ call.invs[i].oldPrivs = o.privileges
                       /\ <<call.invs[i].database, call.invs[i].table>> = ScopeKey(o)})
                   = Cardinality({p \in call.old \ call.new :
                       p.privileges = o.privileges /\ ScopeKey(p) = ScopeKey(o)})
                /\ \A v \in Invs :
                       v.oldPrivs = o.privileges
                       /\ <<v.database, v.table>> = ScopeKey(o) =>
                           \E n \in call.new \ call.old :
                               /\ ScopeKey(n) = ScopeKey(o)
                               /\ v.newPrivs = n.privileges
                               /\ RevokedBy(v) = o.privileges \ n.privileges
                               /\ GrantedBy(v) = n.privileges \ o.privileges
                               /\ \A j \in 1..Len(Sent(v)) : Sent(v)[j].on = ScopeKey(n)

\* a matched pair whose diff both revokes and grants
C4_Witness ==
    /\ Updated
    /\ \E o \in call.old \ call.new, n \in call.new \ call.old :
          /\ ScopeKey(n) = ScopeKey(o)
          /\ o.database # n.database
          /\ o.privileges \ n.privileges # {}
          /\ n.privileges \ o.privileges # {}
    /\ Len(log) = 2

\* the specs of collection c that changed against collection other, on key k
\* and with some privilege
ChangedOn(c, other, k) ==
    {p \in c \ other : ScopeKey(p) = k /\ p.privileges # {}}

\* C5: in an update that returns without error, on the scope of an old spec
\* whose key no new spec has, the statements are REVOKEs only, one for each
\* changed old spec on that key that declares privileges, naming all of
\* them (so exactly one REVOKE and no GRANT for a key that one old spec
\* has); on the scope of a new spec whose key no old spec has, they are
\* GRANTs only, one for each changed new spec on that key that declares
\* privileges, naming all of them.
C5_UnmatchedSpecs ==
    Updated =>
        /\ \A o \in call.old \ call.new :
               (\A n \in call.new : ScopeKey(n) # ScopeKey(o)) =>
                   LET k == ScopeKey(o)
                       peers == ChangedOn(call.old, call.new, k)
                   IN  /\ \A j \in OnScope(k) :
                              /\ log[j].verb = "REVOKE"
                              /\ \E p \in peers : WhatSet(log[j]) = p.privileges
                       /\ \A p \in peers : \E j \in OnScope(k) :
                              WhatSet(log[j]) = p.privileges
                       /\ Cardinality(OnScope(k)) = Cardinality(peers)
        /\ \A n \in call.new \ call.old :
               (\A o \in call.old : ScopeKey(n) # ScopeKey(o)) =>
                   LET k == ScopeKey(n)
                       peers == ChangedOn(call.new, call.old, k)
                   IN  /\ \A j \in OnScope(k) :
                              /\ log[j].verb = "GRANT"
                              /\ \E p \in peers : WhatSet(log[j]) = p.privileges
                       /\ \A p \in peers : \E j \in OnScope(k) :
                              WhatSet(log[j]) = p.privileges
                       /\ Cardinality(OnScope(k)) = Cardinality(peers)

\* one old spec replaced by one new spec on another scope
C5_Witness ==
    /\ Updated
    /\ Cardinality(call.old) = 1 /\ Cardinality(call.new) = 1
    /\ Len(log) = 2
    /\ log[1].verb = "REVOKE" /\ log[2].verb = "GRANT"
    /\ log[1].on # log[2].on

\* the privileges collection c declares for key k
DeclaredOn(c, k) == UNION {f.privileges : f \in {g \in c : ScopeKey(g) = k}}

\* C6: an UpdateGrants pass sends no statement when the old and the new
\* collection are equal, none on the scope of a spec that is in both
\* collections (and alone on its key), and, with unique keys, a REVOKE
\* names only privileges the old spec has and the new one has not, a GRANT
\* only privileges the new spec has and the old one has not.
C6_UnchangedUntouched ==
    call.op = "UpdateGrants" =>
        /\ call.old = call.new => log = <<>>
        /\ \A f \in call.old \cap call.new :
               (\A g \in (call.old \cup call.new) \ {f} : ScopeKey(g) # ScopeKey(f)) =>
                   OnScope(ScopeKey(f)) = {}
        /\ UniqueKeys(call.old) /\ UniqueKeys(call.new) =>
               \A j \in 1..Len(log) :
                   LET O == DeclaredOn(call.old, log[j].on)
                       N == DeclaredOn(call.new, log[j].on)
                   IN  WhatSet(log[j]) \subseteq
                           (IF log[j].verb = "REVOKE" THEN O \ N ELSE N \ O)

\* one scope changes by a GRANT while a spec with privileges stays as it is
C6_Witness ==
    /\ Updated
    /\ Len(log) = 1
    /\ log[1].verb = "GRANT"
    /\ \E f \in call.old \cap call.new :
          f.privileges # {} /\ ScopeKey(f) # log[1].on

\* the name an identifier stands for, quoted or not
Bare(name) == IF name = <<>> THEN Star ELSE Unquote(name)

SameNamed(o, n) ==
    Bare(o.database) = Bare(n.database) /\ Bare(o.table) = Bare(n.table)

\* C7: in an update of one old spec o to one new spec n that name the same
\* database and the same table, bare or already quoted, the two are matched
\* as a pair: the single-scope diff is invoked once, with o's privileges as
\* current and n's as desired.
C7_QuotedScopesMatch ==
    Updated =>
        \A o \in call.old, n \in call.new :
            call.old = {o} /\ call.new = {n} /\ o # n /\ SameNamed(o, n) =>
                /\ Len(call.invs) = 1
                /\ call.invs[1].oldPrivs = o.privileges
                /\ call.invs[1].newPrivs = n.privileges

----------------------------------------------------------------------------
(* Properties of the deletion *)

IsOptionRevoke(st) == st.verb = "REVOKE" /\ st.what = <<<<GrantOption>>>>

\* C8: in a DeleteGrants pass, a REVOKE GRANT OPTION that fails is the last
\* statement of the pass; the pass returns success when the failure is
\* error 1141 and an error when it is any other error.
C8_DeleteTolerance ==
    call.op = "DeleteGrants" =>
        \A j \in 1..Len(log) :
            IsOptionRevoke(log[j]) /\ call.results[j] # Nil =>
                /\ j = Len(log)
                /\ call.results[j] = Err1141 => ret = Nil
                /\ call.results[j] # Err1141 => ret # Nil

\* two specs declared, the first REVOKE GRANT OPTION fails with 1141
C8_Witness ==
    /\ call.op = "DeleteGrants"
    /\ Cardinality(call.old) = 2
    /\ Len(log) = 1
    /\ IsOptionRevoke(log[1])
    /\ call.results[1] = Err1141
    /\ ret = Nil

\* C9: after a DeleteGrants pass that returns without error, the principal
\* holds none of the privileges the declared specs name, on the scope they
\* name them for.
C9_DeleteRemovesAll ==
    call.op = "DeleteGrants" /\ ret = Nil =>
        \A f \in call.old : HeldFor(server, f) \cap f.privileges = {}

PrincipalText(cfg) ==
    IF cfg.user # <<>> /\ cfg.host # <<>>
    THEN <<SQ>> \o cfg.user \o <<SQ, "@", SQ>> \o cfg.host \o <<SQ>>
    ELSE <<SQ>> \o cfg.role \o <<SQ>>

MainRevokes == SelectSeq(log, LAMBDA st : ~IsOptionRevoke(st))

\* C10: in a DeleteGrants pass the main REVOKE statements are, in the order
\* of the declared specs, one per spec: it names the spec's roles, each in
\* single quotes, without ON clause, if the spec declares a role; otherwise
\* the spec's privileges ON the formatted scope if it declares a privilege;
\* otherwise ALL ON the formatted scope; always FROM the resolved principal.
\* When no statement failed there is one for every declared spec.
C10_DeleteStatements ==
    call.op = "DeleteGrants" =>
        LET fs == expandGrants(call.old)
        IN  /\ Len(MainRevokes) <= Len(fs)
            /\ (\A j \in 1..Len(log) : call.results[j] = Nil) =>
                   Len(MainRevokes) = Len(fs)
            /\ \A k \in 1..Len(MainRevokes) :
                   LET f == fs[k]
                       st == MainRevokes[k]
                   IN  /\ st.verb = "REVOKE"
                       /\ st.to = PrincipalText(d.cfg)
                       /\ Len(st.what) = Cardinality(Range(st.what))
                       /\ IF f.roles # {}
                          THEN /\ st.on = NoOn
                               /\ Range(st.what) = {<<SQ, r, SQ>> : r \in f.roles}
                          ELSE IF f.privileges # {}
                          THEN /\ st.on = ScopeKey(f)
                               /\ Range(st.what) = {<<q>> : q \in f.privileges}
                          ELSE /\ st.on = ScopeKey(f)
                               /\ st.what = <<<<All>>>>

\* a deletion that revoked a role and the privileges of another spec
C10_Witness ==
    /\ call.op = "DeleteGrants"
    /\ ret = Nil
    /\ \E j \in 1..Len(log) : log[j].on = NoOn /\ log[j].what = <<<<SQ, "TFRole", SQ>>>>
    /\ \E j \in 1..Len(log) :
          /\ ~IsOptionRevoke(log[j])
          /\ log[j].on = <<Quote(<<"d">>), Quote(<<"t">>)>>
          /\ WhatSet(log[j]) = {"SELECT", "UPDATE"}

\* a deletion that reached the ALL branch
ReachesRevokeAll ==
    call.op = "DeleteGrants" /\ \E j \in 1..Len(log) : log[j].what = <<<<All>>>>

\* the statements a deletion of the specs fs sends when none fails: for each
\* spec the option revoke, if one is due, and then the main revoke
RECURSIVE DeletePlan(_, _, _)
DeletePlan(k, fs, isRole) ==
    IF k > Len(fs) THEN <<>>
    ELSE (IF ~isRole /\ fs[k].roles = {} THEN <<[kind |-> "option", of |-> k]>> ELSE <<>>)
         \o <<[kind |-> "main", of |-> k]>>
         \o DeletePlan(k + 1, fs, isRole)

IsRoleCfg(cfg) == ~(cfg.user # <<>> /\ cfg.host # <<>>)

\* C11: the statements of a DeleteGrants pass follow, spec by spec, the plan
\* "REVOKE GRANT OPTION on the spec's scope, then the main REVOKE", where the
\* option revoke is present iff the principal is not a role and the spec
\* declares no role; the pass sends the whole plan when no statement fails.
C11_DeleteOrder ==
    call.op = "DeleteGrants" =>
        LET fs == expandGrants(call.old)
            plan == DeletePlan(1, fs, IsRoleCfg(d.cfg))
        IN  /\ Len(log) <= Len(plan)
            /\ (ret = Nil /\ \A j \in 1..Len(log) : call.results[j] = Nil) =>
                   Len(log) = Len(plan)
            /\ \A j \in 1..Len(log) :
                   /\ IsOptionRevoke(log[j]) <=> plan[j].kind = "option"
                   /\ plan[j].kind = "option" =>
                          /\ log[j].on = ScopeKey(fs[plan[j].of])
                          /\ j < Len(log) => /\ plan[j + 1] = [kind |-> "main", of |-> plan[j].of]
                                             /\ ~IsOptionRevoke(log[j + 1])

\* a user principal: a role spec revoked without option revoke, a privilege
\* spec with the option revoke first
C11_Witness ==
    /\ call.op = "DeleteGrants"
    /\ ret = Nil
    /\ ~IsRoleCfg(d.cfg)
    /\ Len(log) = 3
    /\ \E j \in 1..2 : /\ IsOptionRevoke(log[j])
                       /\ ~IsOptionRevoke(log[j + 1])
                       /\ log[j + 1].on = log[j].on
    /\ \E j \in 1..3 : log[j].on = NoOn

\* a role principal: main revokes only
RolePrincipalDelete ==
    /\ call.op = "DeleteGrants"
    /\ ret = Nil
    /\ IsRoleCfg(d.cfg)
    /\ Len(log) = 2

\* C12: in a DeleteGrants pass a main REVOKE that fails, with error 1141 or
\* any other, is the last statement of the pass, and the pass returns an
\* error that carries the statement and the error of the server.
C12_MainRevokeFails ==
    call.op = "DeleteGrants" =>
        \A j \in 1..Len(log) :
            ~IsOptionRevoke(log[j]) /\ call.results[j] # Nil =>
                /\ j = Len(log)
                /\ ret # Nil
                /\ ret.sql = log[j]
                /\ ret.cause = call.results[j].msg

\* the main REVOKE of the first of two specs fails with error 1141
C12_Witness ==
    /\ call.op = "DeleteGrants"
    /\ Cardinality(call.old) = 2
    /\ Len(log) = 1
    /\ ~IsOptionRevoke(log[1])
    /\ call.results[1] = Err1141
    /\ ret # Nil

----------------------------------------------------------------------------
(* Properties of the creation *)

Created == call.op = "CreateGrants"

\* what statement st names, privileges or quoted roles
NamesOf(st) ==
    IF st.on = NoOn THEN {w[2] : w \in Range(st.what)} ELSE WhatSet(st)

\* C15: a CreateGrants pass sends GRANT statements only, the j-th for the
\* j-th declared spec; a GRANT that fails is the last statement of the pass,
\* the pass then returns an error and sets no ID; the ID is set only when
\* one GRANT for every declared spec was sent and none failed.
C15_CreateOneGrantEach ==
    Created =>
        LET fs == expandGrants(call.new)
        IN  /\ Len(log) <= Len(fs)
            /\ \A j \in 1..Len(log) :
                   /\ log[j].verb = "GRANT"
                   /\ log[j].to = PrincipalText(d.cfg)
                   /\ NamesOf(log[j]) =
                          IF fs[j].privileges # {} THEN fs[j].privileges ELSE fs[j].roles
                   /\ call.results[j] # Nil =>
                          j = Len(log) /\ ret # Nil /\ d.id = NoId
            /\ d.id # NoId =>
                   /\ Len(log) = Len(fs)
                   /\ \A j \in 1..Len(log) : call.results[j] = Nil
            /\ ret = Nil => Len(log) = Len(fs)

\* two specs created, the ID set
C15_Witness ==
    /\ Created
    /\ ret = Nil
    /\ Len(log) = 2
    /\ d.id = GrantsId(d.cfg)

\* the second GRANT fails: no ID
SecondGrantFails ==
    Created /\ Len(log) = 2 /\ call.results[2] # Nil /\ d.id = NoId

\* C16: in a CreateGrants pass the GRANT of a spec that declares privileges
\* (and no role) has the clause ON with the formatted scope of the spec, for
\* a user principal and for a role principal, and the GRANT of a spec that
\* declares roles (and no privilege) has no ON clause.
C16_OnClause ==
    Created =>
        LET fs == expandGrants(call.new)
        IN  \A j \in 1..Len(log) :
                /\ fs[j].privileges # {} /\ fs[j].roles = {} => log[j].on = ScopeKey(fs[j])
                /\ fs[j].privileges = {} /\ fs[j].roles # {} => log[j].on = NoOn

\* a role principal granted privileges on a scope
C16_Witness ==
    /\ Created
    /\ ret = Nil
    /\ IsRoleCfg(d.cfg)
    /\ \E j \in 1..Len(log) : log[j].on = <<Quote(<<"d">>), Quote(<<"t">>)>>

\* a role granted to a user, without ON clause
RoleGrantedToUser ==
    Created /\ ~IsRoleCfg(d.cfg) /\ \E j \in 1..Len(log) : log[j].on = NoOn

\* no TLS option from the caller: none written, or the empty string
NoTlsDeclared == ~d.tls.declared \/ d.tls.value = <<>>

\* C17: in a CreateGrants pass a GRANT has no REQUIRE clause when the server
\* supports roles or the caller declared no TLS option, and has the clause
\* REQUIRE with the declared option otherwise.
C17_RequireClause ==
    Created =>
        \A j \in 1..Len(log) :
            IF supportsRoles(version) \/ NoTlsDeclared
            THEN log[j].require = <<>>
            ELSE log[j].require = d.tls.value

\* C17, amended: in a CreateGrants pass a GRANT has no REQUIRE clause when the
\* server supports roles or the value of tls_option is the empty string, and
\* has the clause REQUIRE with that value otherwise; the value is the one
\* the caller declared or, when none was declared, the schema default NONE.
C17_RequireByValue ==
    Created =>
        \A j \in 1..Len(log) :
            IF supportsRoles(version) \/ GetTlsOption(d.tls) = <<>>
            THEN log[j].require = <<>>
            ELSE log[j].require = GetTlsOption(d.tls)

\* no TLS option declared, no role support: REQUIRE NONE is sent
C17_Witness ==
    /\ Created
    /\ ~d.tls.declared
    /\ ~supportsRoles(version)
    /\ Len(log) > 0
    /\ \A j \in 1..Len(log) : log[j].require = TlsDefault

ReadFor(f) ==
    {g \in d.grants : Bare(g.database) = Bare(f.database) /\ Bare(g.table) = Bare(f.table)}

GrantDeclaredOn(c, f) == \E g \in c : SameNamed(g, f) /\ g.grant

\* C19: after a CreateGrants pass that returns without error for a user
\* principal, for every declared spec with privileges: if its grant flag is
\* set, the principal holds the grant option on its scope and the read
\* reports grant = true for the scope; if no spec on the scope has the flag,
\* the read reports grant = false for it.
C19_GrantOptionCreated ==
    Created /\ ret = Nil /\ d.id # NoId /\ ~IsRoleCfg(d.cfg) =>
        \A f \in call.new :
            f.privileges # {} /\ f.roles = {} =>
                /\ f.grant =>
                       /\ GrantOption \in HeldOn(server, Unquote(ScopeKey(f)[1]),
                                                  Unquote(ScopeKey(f)[2]))
                       /\ \E g \in ReadFor(f) : g.grant
                /\ ~GrantDeclaredOn(call.new, f) => \A g \in ReadFor(f) : ~g.grant

\* C20: a CreateGrants pass sends no GRANT for a spec that names privileges
\* and roles at once or names neither, and returns an error when such a
\* spec is declared.
C20_BothOrNeitherRejected ==
    Created =>
        LET fs == expandGrants(call.new)
            Bad(f) == (f.privileges # {}) <=> (f.roles # {})
        IN  /\ \A j \in 1..Len(log) : ~Bad(fs[j])
            /\ (\E f \in call.new : Bad(f)) => ret # Nil

\* the half that holds: a spec that names neither is refused
NeitherRejected ==
    Created =>
        LET fs == expandGrants(call.new)
            Neither(f) == f.privileges = {} /\ f.roles = {}
        IN  /\ \A j \in 1..Len(log) : ~Neither(fs[j])
            /\ (\E f \in call.new : Neither(f)) => ret # Nil /\ d.id = NoId

----------------------------------------------------------------------------
(* Properties of the input validation *)

ValidationErrors == {ErrNoPrincipal, ErrRolesOrPrivs, ErrRolesUnsupported}

\* C21: a CreateGrants pass that returns an input validation error (no
\* principal, a spec with neither privileges nor roles, roles or a role
\* principal without role support) has executed no statement, whatever the
\* number of declared specs.
C21_ValidationBeforeStatements ==
    Created /\ ret \in ValidationErrors => log = <<>>

\* the part that holds: with at most one declared spec nothing was executed
ValidationOfOneSpec ==
    Created /\ ret \in ValidationErrors /\ Cardinality(call.new) <= 1 => log = <<>>


----------------------------------------------------------------------------
(* Properties of the refresh *)

\* C22: ReadGrants clears the ID and returns success only when showGrants
\* failed with error 1141; when showGrants fails with another error, a row
\* that does not match the grammar included, ReadGrants returns an error
\* and leaves the resource data as it was.
C22_AbsentOnlyOn1141 ==
    call.op = "ReadGrants" =>
        /\ d.id = NoId /\ ret = Nil => call.shown.err = Err1141
        /\ call.shown.err \notin {Nil, Err1141} => ret # Nil /\ d = call.before

\* the part that holds: after error 1141 the resource is absent
AbsentOn1141 ==
    call.op = "ReadGrants" /\ call.shown.err = Err1141 => d.id = NoId /\ ret = Nil

\* C23: when the query succeeds, showGrants returns either one record for
\* each row of the report, in the order of the report, and no error, which
\* it does when every row matches the grammar; or the parse error and no
\* record, which it does when some row does not match, whatever the number
\* of rows before that one.
C23_AllOrNothing ==
    call.op = "ReadGrants" /\ call.shown.called /\ call.queryErr = Nil =>
        IF \A i \in 1..Len(call.rows) : RowMatches(call.rows[i])
        THEN /\ call.shown.err = Nil
             /\ Len(call.shown.grants) = Len(call.rows)
             /\ \A i \in 1..Len(call.rows) :
                    /\ call.shown.grants[i].Database = ReplaceAllBT(call.rows[i].on[1])
                    /\ call.shown.grants[i].Table = TrimBT(call.rows[i].on[2])
                    /\ call.shown.grants[i].Grant = call.rows[i].grantOption
                    /\ Join(call.shown.grants[i].Privileges, Comma) = call.rows[i].privs
        ELSE /\ call.shown.err = ErrParse
             /\ call.shown.grants = <<>>

\* the row of a granted role comes after two rows that match
C23_Witness ==
    /\ call.op = "ReadGrants"
    /\ call.shown.called
    /\ call.queryErr = Nil
    /\ Len(call.rows) = 3
    /\ RowMatches(call.rows[1]) /\ RowMatches(call.rows[2]) /\ ~RowMatches(call.rows[3])
    /\ call.shown.err = ErrParse
    /\ call.shown.grants = <<>>

\* a report of three rows that all match
ThreeRowsRead ==
    /\ call.op = "ReadGrants"
    /\ call.shown.called
    /\ call.shown.err = Nil
    /\ Len(call.shown.grants) = 3


----------------------------------------------------------------------------
(* Properties of parsePrivileges *)

\* C24: parsing the ", "-join of the result of parsePrivileges gives the
\* same list again.
C24_ParseIdempotent ==
    call.op = "parseRendered" => call.result = call.prev

\* a clause whose columns were out of order and that had no space after a comma
C24_Witness ==
    /\ call.op = "parseRendered"
    /\ Len(d.items) = 2
    /\ d.items[1].cols = <<"user", "id">>
    /\ d.seps = <<<<Cm>>>>
    /\ call.prev # <<>>
    /\ Join(call.prev, Comma) # ClauseText(d.items, d.seps)

\* the columns in ascending order
Ascending(cols) == SelectSeq(ByteOrder, LAMBDA a : a \in Range(cols))

CommaSpaceColumns(items) ==
    \A i \in 1..Len(items) : items[i].colsep = Comma

\* C25: for a column privilege whose columns are separated by ", " the
\* result holds the token "<capability> (<columns ascending, joined by ", ">)",
\* and a clause of such privileges parsed with the columns in another order
\* gives the same list.
C25_ColumnsSorted ==
    /\ call.op = "parsePrivileges" =>
           \A i \in 1..Len(d.items) :
               d.items[i].cols # <<>> /\ d.items[i].colsep = Comma =>
                   \E k \in 1..Len(call.result) :
                       call.result[k] = d.items[i].cap \o <<Sp, LP>>
                                        \o Join(Texts(Ascending(d.items[i].cols)), Comma)
                                        \o <<RP>>
    /\ call.op = "parseReordered" /\ CommaSpaceColumns(d.items) =>
           call.result = call.prev

\* "SELECT(user, id)" and "SELECT(id, user)" give the same token
C25_Witness ==
    /\ call.op = "parseReordered"
    /\ CommaSpaceColumns(d.items)
    /\ \E i \in 1..Len(d.items) : Len(d.items[i].cols) = 2
    /\ call.args # <<ClauseText(d.items, d.seps)>>
    /\ call.result = call.prev

\* C26: parsePrivileges returns one token for each privilege of the clause,
\* in the order of the clause: the capability itself for a privilege
\* without columns, a token that begins with the capability for a column
\* privilege; no token begins or ends with a space.
C26_OneTokenEach ==
    call.op = "parsePrivileges" =>
        /\ Len(call.result) = Len(d.items)
        /\ \A i \in 1..Len(call.result) :
               /\ i <= Len(d.items) =>
                      IF d.items[i].cols = <<>>
                      THEN call.result[i] = d.items[i].cap
                      ELSE HasPrefix(call.result[i], d.items[i].cap)
               /\ call.result[i][1] # Sp
               /\ call.result[i][Len(call.result[i])] # Sp

\* what holds: one token each when no capability has an underscore
OneTokenWithoutUnderscore ==
    call.op = "parsePrivileges"
    /\ (\A i \in 1..Len(d.items) : ~Contains(d.items[i].cap, Us)) =>
        /\ Len(call.result) = Len(d.items)
        /\ \A i \in 1..Len(call.result) :
               IF d.items[i].cols = <<>>
               THEN call.result[i] = d.items[i].cap
               ELSE HasPrefix(call.result[i], d.items[i].cap)


----------------------------------------------------------------------------
(* Properties of the formatters *)

\* C27: formatDatabaseName returns the wildcard as it is and a name that
\* ends with a backtick as it is; of any other name it returns the name in
\* backticks, except that for a name that starts with "PROCEDURE " it
\* returns PROCEDURE, a space and the rest of the name in backticks.
\* Formatting the result again returns the result.
C27_FormatDatabase ==
    /\ call.op = "formatDatabaseName" =>
           LET name == call.args[1]
           IN  call.result =
                   IF name = Star THEN Star
                   ELSE IF HasSuffix(name, <<BT>>) THEN name
                   ELSE IF HasPrefix(name, ProcedurePrefix)
                   THEN ProcedurePrefix \o <<BT>> \o Tail(name) \o <<BT>>
                   ELSE <<BT>> \o name \o <<BT>>
    /\ call.op = "formatDatabaseNameAgain" => call.result = call.prev

\* a PROCEDURE name was quoted behind its prefix and formatted again
C27_Witness ==
    /\ call.op = "formatDatabaseNameAgain"
    /\ d.name = <<"PROCEDURE ", "d">>
    /\ call.prev = <<"PROCEDURE ", BT, "d", BT>>
    /\ call.result = call.prev

\* C28: formatTableName returns the wildcard for the empty name and for the
\* wildcard, and for every other name the name between one backtick and one
\* backtick, a name with the PROCEDURE prefix or with backticks of its own
\* included.
C28_FormatTable ==
    call.op = "formatTableName" =>
        LET name == call.args[1]
        IN  call.result =
                IF name = <<>> \/ name = Star THEN Star
                ELSE <<BT>> \o name \o <<BT>>

\* a name with the PROCEDURE prefix is quoted as a whole
C28_Witness ==
    /\ call.op = "formatTableName"
    /\ call.args = <<<<"PROCEDURE ", "d">>>>
    /\ call.result = <<BT, "PROCEDURE ", "d", BT>>

\* a name that is quoted already is quoted once more
TableQuotedTwice ==
    /\ call.op = "formatTableName"
    /\ call.args = <<<<BT, "d", BT>>>>
    /\ call.result = <<BT, BT, "d", BT, BT>>


----------------------------------------------------------------------------
(* Properties of the statements of every pass *)

\* C29: every statement of an UpdateGrant pass names the scope of the
\* resource with the formatted database and the formatted table, so a table
\* that is not the wildcard is in backticks.
C29_FormattedScope ==
    call.op = "UpdateGrant" =>
        \A j \in 1..Len(log) :
            log[j].on = <<formatDatabaseName(d.database), formatTableName(d.table)>>

\* the part that holds in UpdateGrant: the database is formatted
FormattedDatabase ==
    call.op = "UpdateGrant" =>
        \A j \in 1..Len(log) : log[j].on[1] = formatDatabaseName(d.database)

\* the statements of the passes of mysql_grants name formatted scopes
FormattedScopeMulti ==
    call.op \in {"UpdateGrants", "DeleteGrants"} =>
        \A j \in 1..Len(log) :
            log[j].on # NoOn =>
                \E f \in call.old \cup call.new : log[j].on = ScopeKey(f)

\* the failure of statement j that a deletion tolerates
Tolerated(j) ==
    /\ call.op = "DeleteGrants"
    /\ IsOptionRevoke(log[j])
    /\ call.results[j] = Err1141

StopAtFirstFailureCreate ==
    call.op \in {"CreateGrants", "UpdateGrant"} =>
        \A j \in 1..Len(log) :
            call.results[j] # Nil => j = Len(log) /\ ret # Nil


----------------------------------------------------------------------------
(* Properties of the order of the statements *)

\* C31: among the statements of one invocation of updatePrivileges, which
\* are all on one scope, the REVOKE comes before the GRANT, and when the
\* REVOKE failed there is no GRANT.
C31_RevokeBeforeGrant ==
    call.op = "UpdateGrants" =>
        \A i \in 1..Len(call.invs) :
            LET v == call.invs[i]
            IN  \A j \in v.first..v.last :
                    log[j].verb = "REVOKE" =>
                        /\ \A k \in v.first..(j - 1) : log[k].verb # "GRANT"
                        /\ call.results[j] # Nil =>
                               \A k \in v.first..v.last : log[k].verb # "GRANT"

\* one scope, first the REVOKE and then the GRANT
C31_Witness ==
    /\ call.op = "UpdateGrants"
    /\ ret = Nil
    /\ Len(call.invs) = 1
    /\ Len(log) = 2
    /\ log[1].verb = "REVOKE" /\ log[2].verb = "GRANT"
    /\ log[1].on = log[2].on

\* the REVOKE fails where a GRANT was due: the GRANT is not sent
RevokeFailsNoGrant ==
    /\ call.op = "UpdateGrants"
    /\ Len(call.invs) = 1
    /\ call.invs[1].newPrivs \ call.invs[1].oldPrivs # {}
    /\ Len(log) = 1
    /\ log[1].verb = "REVOKE"
    /\ call.results[1] # Nil


----------------------------------------------------------------------------
(* Properties of the state an update leaves *)

\* C33: after an UpdateGrants pass that returns without error, with unique
\* scope keys in the old and in the new collection, the server holds on the
\* scope of every new spec exactly the privileges the spec declares,
\* whatever the server held when the pass began.
C33_FreshServerState ==
    Updated /\ UniqueKeys(call.old) /\ UniqueKeys(call.new) =>
        \A f \in call.new : HeldFor(server, f) = f.privileges

\* the pass began on a server that had drifted from the recorded collection
DriftedBeforeUpdate ==
    /\ Updated
    /\ UniqueKeys(call.old) /\ UniqueKeys(call.new)
    /\ ~ServerEquals(call.before, call.old)

\* C36: after an UpdateGrants pass that returns without error and began
\* with the server holding the old collection, the server holds on the scope
\* of every new spec that is not in the old collection all the privileges
\* the spec declares, also when another spec of the new collection has the
\* same (database, table) key.
C36_SharedKeyApplied ==
    Updated /\ ServerEquals(call.before, call.old) =>
        \A f \in call.new \ call.old : f.privileges \subseteq HeldFor(server, f)

\* what holds: the same with unique keys in both collections
UniqueKeyApplied ==
    Updated /\ ServerEquals(call.before, call.old)
            /\ UniqueKeys(call.old) /\ UniqueKeys(call.new) =>
        \A f \in call.new \ call.old : f.privileges \subseteq HeldFor(server, f)

\* the principal holds the grant option on the scope of spec f
HoldsOption(srv, f) ==
    GrantOption \in HeldOn(srv, Unquote(ScopeKey(f)[1]), Unquote(ScopeKey(f)[2]))

\* the server holds on every scope of collection c the grant option iff the
\* spec has the grant flag
OptionsEqual(srv, c) ==
    \A f \in c : f.privileges # {} => (HoldsOption(srv, f) <=> f.grant)

\* C37: after an UpdateGrants pass that returns without error, with unique
\* scope keys, that began with the server holding the old collection and its
\* grant options, the principal holds the grant option on the scope of a new
\* spec with privileges iff the spec has the grant flag.
C37_GrantFlagUpdated ==
    Updated /\ ServerEquals(call.before, call.old) /\ OptionsEqual(call.before, call.old)
            /\ UniqueKeys(call.old) /\ UniqueKeys(call.new) =>
        OptionsEqual(server, call.new)

\* what holds: an update leaves the grant options of the server as they were
OptionsUntouched ==
    call.op = "UpdateGrants" =>
        {t \in server.privs : t[3] = GrantOption}
            = {t \in call.before.privs : t[3] = GrantOption}


----------------------------------------------------------------------------
(* Properties of the order of the specs *)

\* the statements of a creation that processes the blocks in the order fs
StatementsInOrder(fs) ==
    createLoop(1, fs, d.cfg, supportsRoles(version), Conn(EmptyServer, NoFault)).db.log

\* C32: a CreateGrants pass that returns without error has sent the
\* statements of the grants blocks in the order the configuration declares
\* the blocks.
C32_DeclaredOrder ==
    Created /\ ret = Nil => log = StatementsInOrder(d.declared)

\* what holds: the statements follow the order in which the schema.Set lists
\* the blocks, which depends on the content of the collection alone
SetOrder ==
    Created /\ ret = Nil => log = StatementsInOrder(expandGrants(Range(d.declared)))

\* two blocks were declared and both statements went through
TwoBlocksCreated ==
    Created /\ ret = Nil /\ Len(d.declared) = 2 /\ Len(log) = 2 /\ log[1] # log[2]


----------------------------------------------------------------------------
(* Properties of the ID *)

\* strings.Split(t, sep) for a separator of one character
RECURSIVE Split(_, _)
Split(t, sep) ==
    IF ~Contains(t, sep) THEN <<t>>
    ELSE <<SubSeq(t, 1, IndexOf(t, sep) - 1)>>
             \o Split(SubSeq(t, IndexOf(t, sep) + 1, Len(t)), sep)

(* resource_grants_test.go testAccGrantsCheckDestroy: the principal that is
   looked up for an ID *)
RecoveredPrincipal(id) ==
    LET id0 == Split(id, ":")[1]
    IN  IF Contains(id0, "@")
        THEN <<SQ>> \o Split(id0, "@")[1] \o <<SQ, "@", SQ>>
                 \o Split(id0, "@")[2] \o <<SQ>>
        ELSE <<SQ>> \o id0 \o <<SQ>>

\* the principal the statements of the creation were issued to
ResolvedPrincipal ==
    userOrRole(d.cfg.user, d.cfg.host, d.cfg.role, supportsRoles(version)).str

\* C40: after a CreateGrants pass that returns without error and leaves an
\* ID, the principal recovered from the ID is the principal the GRANT
\* statements were issued to, for a user and for a role.
C40_IdNamesPrincipal ==
    Created /\ ret = Nil /\ d.id # NoId => RecoveredPrincipal(d.id) = ResolvedPrincipal

\* what holds: the ID of a user principal names it
UserIdNamesPrincipal ==
    Created /\ ret = Nil /\ d.id # NoId /\ Len(d.cfg.user) > 0 =>
        RecoveredPrincipal(d.id) = ResolvedPrincipal

\* a role was granted something and the resource has an ID
RoleCreatedWithId ==
    /\ Created /\ ret = Nil /\ d.id # NoId
    /\ Len(d.cfg.role) > 0 /\ Len(log) > 0
    /\ \A j \in 1..Len(log) : log[j].to = <<SQ, "TFRole", SQ>>


----------------------------------------------------------------------------
(* Properties of what a refresh records *)

\* C38: a ReadGrants pass that got the report hands to the state one grants
\* entry for each line of the report, in the order of the report, with the
\* database, the table, the privileges and the grant flag of the line's
\* record, the global line that no configuration declares included; the
\* update that follows has these entries as its old collection and revokes
\* on the global scope.
C38_OneEntryPerLine ==
    /\ call.op = "ReadGrants" /\ call.shown.called /\ call.shown.err = Nil =>
           /\ Len(call.subGranter) = Len(call.rows)
           /\ \A i \in 1..Len(call.rows) :
                  LET e == call.subGranter[i]
                      g == call.shown.grants[i]
                      row == call.rows[i]
                  IN  /\ e.database = g.Database /\ e.table = g.Table
                      /\ e.privileges = {t[1] : t \in Range(g.Privileges)}
                      /\ e.grant = g.Grant
                      /\ e.database = ReplaceAllBT(row.on[1])
                      /\ e.table = TrimBT(row.on[2])
           /\ d.grants = Range(call.subGranter)
           /\ \E e \in d.grants : e.database = Star /\ e.table = Star
    /\ call.op = "UpdateGrants" =>
           /\ \E e \in call.old : e.database = Star /\ e.table = Star
           /\ ret = Nil /\ call.new # call.old =>
                  \E j \in 1..Len(log) :
                      log[j].verb = "REVOKE" /\ log[j].on = <<Star, Star>>

\* a report of three lines was recorded
C38_Witness ==
    /\ call.op = "ReadGrants" /\ call.shown.called /\ call.shown.err = Nil
    /\ Len(call.rows) = 3 /\ Cardinality(d.grants) = 3
    /\ \A f \in call.before.grants : f.database # Star

\* the update after a refresh revoked on the scope nobody declared
UndeclaredScopeRevoked ==
    /\ call.op = "UpdateGrants" /\ ret = Nil
    /\ \E j \in 1..Len(log) : log[j].verb = "REVOKE" /\ log[j].on = <<Star, Star>>
    /\ \E f \in call.new : f.privileges # {}


----------------------------------------------------------------------------
(* Properties of the import *)

\* the (database, table) pairs of a collection
RecordedScopes(c) == {<<f.database, f.table>> : f \in c}

\* a refresh that followed an import of the same report, both without error
ReadAfterImport ==
    /\ call.op = "ReadGrants" /\ call.after = "ImportGrants"
    /\ call.shown.called /\ call.shown.err = Nil /\ d.id # NoId

\* C39: a refresh that follows an import, on the same grants of the
\* principal, records the same (database, table) pairs as the import did.
C39_SameScopes ==
    ReadAfterImport => RecordedScopes(d.grants) = RecordedScopes(call.before.grants)

\* what holds: the import records the formatted names of what the refresh
\* records
ImportFormatsScopes ==
    ReadAfterImport =>
        RecordedScopes(call.before.grants)
            = {<<formatDatabaseName(sc[1]), formatTableName(sc[2])>> :
                   sc \in RecordedScopes(d.grants)}

\* the refresh after an import of a principal that holds something on a
\* database
ReadAfterImportOfDatabase ==
    ReadAfterImport /\ \E f \in d.grants : f.database # Star


----------------------------------------------------------------------------
(* Properties of the record of one row *)

\* GRANT OPTION stands in the clause t as words of its own
PhraseIn(t) ==
    \E i \in 1..(Len(t) - 2) :
        /\ SubSeq(t, i, i + 2) = <<"GRANT", Sp, "OPTION">>
        /\ i > 1 => t[i - 1] \in {Sp, Cm}
        /\ i + 2 < Len(t) => t[i + 3] \in {Sp, Cm}

RowParsed == call.op = "showGrants" /\ ret = Nil /\ Len(call.result) = 1

\* C35: the record of a row has the grant flag iff the row has GRANT OPTION as
\* a phrase of its own, in its privilege clause or as the trailing WITH
\* GRANT OPTION, and has as database and table the identifiers of the row
\* without the backticks that surround them.
C35_FlagAndNames ==
    RowParsed =>
        /\ call.result[1].Grant <=> (call.row.grantOption \/ PhraseIn(call.row.privs))
        /\ call.result[1].Database = Unquote(call.row.on[1])
        /\ call.result[1].Table = Unquote(call.row.on[2])

\* what holds: the flag, and the table
FlagAndTable ==
    RowParsed =>
        /\ call.result[1].Grant <=> (call.row.grantOption \/ PhraseIn(call.row.privs))
        /\ call.result[1].Table = Unquote(call.row.on[2])

\* what holds: the database is the identifier without any of its backticks
DatabaseWithoutBackticks ==
    RowParsed =>
        /\ ~Contains(call.result[1].Database, BT)
        /\ call.result[1].Database = ReplaceAllBT(Unquote(call.row.on[1]))

\* a row with the phrase in its clause alone, and one with the phrase inside
\* a longer word
PhraseInClauseParsed ==
    RowParsed /\ ~call.row.grantOption /\ call.result[1].Grant

LongerWordParsed ==
    RowParsed /\ call.row.privs = <<"GRANT", Sp, "OPTION", Us, "ADMIN">>
              /\ ~call.result[1].Grant


----------------------------------------------------------------------------
(* Properties of two passes at once *)

\* what the principal holds on the scope of the two passes
RaceHeld == HeldOn(server, <<"d">>, Star)

\* C34: nothing coordinates two passes on one principal: in every state each
\* pass that has not returned can send its next statement, whatever the
\* other has sent, so the statements of the two interleave in any order.
C34_NotCoordinated ==
    \A p \in Passes : call.pc[p] # "done" => ENABLED PassStep(p)

\* both passes returned without error, their statements interleaved, and the
\* principal holds neither what A wanted nor what B wanted
C34_Witness ==
    /\ \A p \in Passes : call.pc[p] = "done" /\ call.err[p] = Nil
    /\ call.by = <<"B", "A", "A", "B">>
    /\ RaceHeld # d["A"].newPrivs
    /\ RaceHeld # d["B"].newPrivs

\* the two passes have the same recorded old set, and each one run alone
\* would have reached its desired set
NeitherFromSameOld ==
    /\ \A p \in Passes : call.pc[p] = "done" /\ call.err[p] = Nil
    /\ d["A"].oldPrivs = d["B"].oldPrivs
    /\ RaceHeld \notin {d["A"].newPrivs, d["B"].newPrivs}


----------------------------------------------------------------------------
(* Properties of the helpers *)

\* C13: userOrRole follows the decision table: user and host both non-empty
\* give the user principal 'user'@'host', not a role, whatever role and
\* role support are; otherwise a non-empty role with role support gives the
\* role principal 'role'; otherwise the call fails, with the roles error
\* when a role was named and with the principal error when none was.  A
\* role principal is never returned without role support.
C13_PrincipalTable ==
    call.op = "userOrRole" =>
        LET user == call.args[1]
            host == call.args[2]
            role == call.args[3]
            hasRoles == call.args[4]
            r == call.result
        IN  /\ r.isRole => hasRoles
            /\ IF user # <<>> /\ host # <<>>
               THEN /\ r.err = Nil
                    /\ ~r.isRole
                    /\ r.str = <<SQ>> \o user \o <<SQ, "@", SQ>> \o host \o <<SQ>>
               ELSE IF role # <<>> /\ hasRoles
               THEN /\ r.err = Nil
                    /\ r.isRole
                    /\ r.str = <<SQ>> \o role \o <<SQ>>
               ELSE IF role # <<>>
               THEN r.err = ErrRolesUnsupported /\ ~r.isRole
               ELSE r.err = ErrNoPrincipal /\ ~r.isRole

\* user, host and role all supplied, role support present: the user wins
C13_Witness ==
    /\ call.op = "userOrRole"
    /\ call.args = <<<<"jdoe">>, <<"example.com">>, <<"TFRole">>, TRUE>>
    /\ ~call.result.isRole
    /\ call.result.err = Nil

\* C14: supportsRoles reports role support exactly when the version of the
\* server is 8.0.0 or greater.
C14_RolesFrom800 ==
    call.op = "supportsRoles" =>
        (call.result <=> (version = RequiredVersion \/ GreaterThan(version, RequiredVersion)))

====
